---- MODULE Spec2Model ----
(***************************************************************************)
(* Model of the transcriber repository:                                    *)
(*   - the deduplication ledger (processed_files_tracker.py) and the       *)
(*     Google Drive handler that gates the pipeline on it                  *)
(*     (google_drive_file_handler.py)            -> SpecTracker            *)
(*   - the local-workbook row writer (excel_writer.py) -> SpecExcel        *)
(*   - the cloud row writer (google_sheets_handler.py) -> SpecSheets       *)
(*   - the local schema reader (excel_reader.py)       -> SpecReader       *)
(*   - extraction, evaluation and the local pipeline                       *)
(*     (transcriber.py)                          -> SpecTranscriber        *)
(* Each subsystem has its own variables and its own specification; the     *)
(* variables of the other subsystems stay at their idle values.            *)
(***************************************************************************)
EXTENDS Integers, Sequences, FiniteSets, TLC

VARIABLES
    \* ---- GoogleDriveFileHandler / ProcessedFilesTracker ----
    processed_files,   \* GoogleDriveFileHandler.processed_files (session set)
    tracker,           \* ProcessedFilesTracker.processed_files (in-memory dict)
    tracker_file,      \* content of processed_files_drive.json on disk
    op,                \* the operation that ran last
    listed,            \* the file ids handed to the last operation
    oversized,         \* those of them larger than max_file_size
    ran,               \* ids for which the last operation called the pipeline
    outcome,           \* what the pipeline did for each id in ran
    had_entry,         \* ids that had a ledger entry when the last operation began
    pendingRetry,      \* ids removed by remove_file and not run since
    \* ---- ExcelDataWriter (local workbook) ----
    ws,                \* ExcelDataWriter.worksheet of the open writer
    xop,               \* the writer operation that ran last
    row,               \* the row the last operation found or was to write
    ok,                \* whether the last operation reported a written row
    xdata,             \* the data handed to the last write (None: no write)
    xfile,             \* the workbook file on disk
    xresult,           \* what write_analyzed_data_to_excel returned
    \* ---- GoogleSheetsHandler (cloud worksheet) ----
    sheet,             \* the worksheet's cells: user-entered values by row
    sop,               \* the handler operation that ran last
    srow,              \* the row the last operation found or wrote
    sok,               \* what the last write_data_to_row returned
    sauto,             \* whether it allocated its row itself (target_row None)
    swritten,          \* written_fields of the last write_data_to_row
    \* ---- ExcelDataReader (local schema reader) ----
    header_cells,      \* the cells of the header row, columns 1..max_column
    rop,               \* the reader operation that ran last
    header_values,     \* header_values of the last read_data
    keys_dict,         \* the dict read_data returned: its items in order
    srop,              \* what GoogleSheetsHandler.read_data did on the same row
    sfields,           \* the dict it returned: field name and 'column', in order
    \* ---- AudioTranscriber (extraction, evaluation, the local pipeline) ----
    fields_structure,  \* what ExcelDataReader.read_data gives fill_excel_data
    top,               \* the transcriber operation that ran last
    generated,         \* its generate_content calls: the prompt kind and the outcome
    returned,          \* what it returned
    committed,         \* whether it called write_analyzed_data_to_excel
    \* ---- AudioFileHandler (local-folder watcher) ----
    enable_excel,      \* AudioFileHandler.enable_excel
    wprocessed,        \* AudioFileHandler.processed_files (session set)
    wtranscripts,      \* stems X for which <folder>/X.txt exists
    wrows,             \* per path, the rows committed to the workbook for it
    wop                \* the handler operation that ran last

trackerVars == <<processed_files, tracker, tracker_file, op, listed, oversized,
                 ran, outcome, had_entry, pendingRetry>>

excelVars == <<ws, xop, row, ok, xdata, xfile, xresult>>

sheetsVars == <<sheet, sop, srow, sok, sauto, swritten>>

readerVars == <<header_cells, rop, header_values, keys_dict, srop, sfields>>

transcriberVars == <<fields_structure, top, generated, returned, committed>>

watcherVars == <<enable_excel, wprocessed, wtranscripts, wrows, wop>>

vars == <<trackerVars, excelVars, sheetsVars, readerVars, transcriberVars, watcherVars>>

-----------------------------------------------------------------------------
(* Bounds *)

NumFiles == 2
MaxWrittenRow == 4
XlsMaxRow == 3
ShMaxRow == 4
MaxHeaderCols == 3
MaxFields == 4
MaxCommits == 2
FileMaxRow == 4

-----------------------------------------------------------------------------
(* Python values, tagged by type *)

PyNone == [ty |-> "NoneType"]
PyBool(b) == [ty |-> "bool", b |-> b]
PyInt(n) == [ty |-> "int", n |-> n]
PyStr(s) == [ty |-> "str", s |-> s]

\* A call that raised: generate_content, upload_file, os.makedirs, the
\* ExcelDataReader or the writer (the except Exception branches)
Failure == [ty |-> "Exception"]

\* The empty dict: a function with empty domain.
EmptyDict == [k \in {} |-> PyNone]

-----------------------------------------------------------------------------
(* Google Drive files and the pipeline's results *)

FileIdTable == <<"id1", "id2", "id3", "id4">>
Files == {FileIdTable[i] : i \in 1..NumFiles}

\* file_metadata['name'] of a listed file
NameOf(file_id) == <<file_id, ".mp3">>

\* First row the cloud backend allocates (find_next_empty_row start_row).
SheetsStartRow == 4

\* What transcriber.process_and_update_sheets can do when called: return a
\* result with success true and the written row, return a result with success
\* false and an error, or raise.
PipelineResults ==
    {[kind |-> "ok", written_row |-> r, error |-> "-"] : r \in SheetsStartRow..MaxWrittenRow}
    \cup {[kind |-> "fail", written_row |-> 0, error |-> "E"]}
    \cup {[kind |-> "raise", written_row |-> 0, error |-> "-"]}

-----------------------------------------------------------------------------
(* ProcessedFilesTracker *)

NoFile == [exists |-> FALSE]

\* json.dump of one Python value / json.load of one JSON value
JsonOfPy(v) ==
    CASE v.ty = "NoneType" -> [json |-> "null"]
      [] v.ty = "bool" -> [json |-> IF v.b THEN "true" ELSE "false"]
      [] v.ty = "int" -> [json |-> "number", lit |-> v.n]
      [] v.ty = "str" -> [json |-> "string", lit |-> v.s]

PyOfJson(j) ==
    CASE j.json = "null" -> PyNone
      [] j.json = "true" -> PyBool(TRUE)
      [] j.json = "false" -> PyBool(FALSE)
      [] j.json = "number" -> PyInt(j.lit)
      [] j.json = "string" -> PyStr(j.lit)

EntryKeys == {"file_name", "processed_at", "success", "error", "row_number"}

\* json.dump(self.processed_files, f): a document object keyed by file id
json_dump(d) ==
    [exists |-> TRUE,
     doc |-> [k \in DOMAIN d |-> [f \in EntryKeys |-> JsonOfPy(d[k][f])]]]

\* json.load(f)
json_load(file) ==
    [k \in DOMAIN file.doc |-> [f \in EntryKeys |-> PyOfJson(file.doc[k][f])]]

\* load_history: the dict a tracker constructed on this file starts with
load_history(file) ==
    IF file.exists THEN json_load(file) ELSE EmptyDict

\* save_history: the file content after writing dict d
save_history_skipped(d) == tracker_file
save_history(d) == json_dump(d)

is_processed_never(file_id) == FALSE
is_processed(file_id) == file_id \in DOMAIN tracker

\* The entry mark_as_processed stores
Entry(file_name, success, error, row_number) ==
    [file_name |-> PyStr(file_name),
     processed_at |-> PyStr("isoformat"),
     success |-> PyBool(success),
     error |-> error,
     row_number |-> row_number]

\* The dict after `del d[file_id]`
DictWithout(d, file_id) == [k \in DOMAIN d \ {file_id} |-> d[k]]

-----------------------------------------------------------------------------
(* GoogleDriveFileHandler *)

\* process_audio_file reaches the pipeline call for file_id (guards of
\* lines 56-67), big telling whether the file exceeds max_file_size
ReachesPipeline(file_id, big) ==
    /\ ~big
    /\ ~is_processed(file_id)
    /\ file_id \notin processed_files

\* The entry process_audio_file stores after the pipeline returned res
EntryFor(file_id, res) ==
    IF res.kind = "ok"
    THEN Entry(NameOf(file_id), TRUE, PyNone, PyInt(res.written_row))
    ELSE Entry(NameOf(file_id), FALSE, PyStr(res.error), PyNone)

\* The effect of calling process_audio_file once for every id of `calls`
\* (distinct ids; the call for one id reads and writes only that id's
\* state), `big` the oversized ones and res what the pipeline does for
\* each id it is called for.
ProcessAll(name, listing, calls, big) ==
    LET runs == {x \in calls : ReachesPipeline(x, x \in big)}
    IN \E res \in [runs -> PipelineResults] :
      LET marked == {x \in runs : res[x].kind # "raise"}
          newTracker == [x \in DOMAIN tracker \cup marked |->
                          IF x \in marked THEN EntryFor(x, res[x]) ELSE tracker[x]]
      IN
        /\ tracker' = newTracker
        /\ tracker_file' = IF marked = {} THEN tracker_file ELSE save_history(newTracker)
        /\ processed_files' = processed_files \cup marked
        /\ op' = name
        /\ listed' = listing
        /\ oversized' = big
        /\ ran' = runs
        /\ outcome' = [x \in runs |-> res[x]]
        /\ had_entry' = DOMAIN tracker
        /\ pendingRetry' = pendingRetry \ runs
        /\ UNCHANGED <<excelVars, sheetsVars, readerVars, transcriberVars, watcherVars>>

\* process_audio_file(file_metadata), called directly
process_audio_file(file_id) ==
    \E big \in SUBSET {file_id} :
        ProcessAll("process_audio_file", {file_id}, {file_id}, big)

\* One iteration of the polling loop of monitor_folder. A listed file over
\* the size limit makes process_audio_file return at once (line 58), before
\* it reads or writes any state, so a listing is given by the files of it
\* that are within the limit.
monitor_folder ==
    \E listing \in SUBSET Files :
        ProcessAll("monitor_folder", listing,
                   {x \in listing : x \notin processed_files}, {})

\* process_existing_files, the listing given as for monitor_folder
process_existing_files ==
    \E listing \in SUBSET Files :
        ProcessAll("process_existing_files", listing,
                   {x \in listing : ~is_processed(x)}, {})

HistoryOfLedgerOp(name, ids) ==
    /\ op' = name
    /\ listed' = ids
    /\ oversized' = {}
    /\ ran' = {}
    /\ outcome' = EmptyDict
    /\ had_entry' = DOMAIN tracker
    /\ UNCHANGED <<excelVars, sheetsVars, readerVars, transcriberVars, watcherVars>>

\* tracker.remove_file(file_id)
remove_file(file_id) ==
    /\ IF file_id \in DOMAIN tracker
       THEN /\ tracker' = DictWithout(tracker, file_id)
            /\ tracker_file' = save_history(DictWithout(tracker, file_id))
            /\ pendingRetry' = pendingRetry \cup {file_id}
       ELSE UNCHANGED <<tracker, tracker_file, pendingRetry>>
    /\ HistoryOfLedgerOp("remove_file", {file_id})
    /\ UNCHANGED processed_files

\* tracker.clear_history()
clear_history ==
    /\ tracker' = EmptyDict
    /\ tracker_file' = save_history(EmptyDict)
    /\ HistoryOfLedgerOp("clear_history", {})
    /\ UNCHANGED <<processed_files, pendingRetry>>

\* tracker.mark_as_processed(file_id, file_name, success, error,
\* row_number), called on the tracker itself
mark_as_processed ==
    \E file_id \in Files, success \in BOOLEAN, error \in {PyNone, PyStr("E")},
       row_number \in {PyNone, PyInt(SheetsStartRow)} :
        \E d \in {[x \in DOMAIN tracker \cup {file_id} |->
                     IF x = file_id
                     THEN Entry(NameOf(file_id), success, error, row_number)
                     ELSE tracker[x]]} :
            /\ tracker' = d
            /\ tracker_file' = save_history(d)
            /\ HistoryOfLedgerOp("mark_as_processed", {file_id})
            /\ UNCHANGED <<processed_files, pendingRetry>>

\* get_processed_count, get_successful_count, get_failed_count and
\* get_stats on the dict d; f.get('success', default) is the stored value,
\* every entry having the key
get_processed_count(d) == Cardinality(DOMAIN d)
get_successful_count_rows(d) == Cardinality({k \in DOMAIN d : d[k].row_number # PyNone})
get_successful_count(d) ==
    Cardinality({k \in DOMAIN d : d[k].success.ty = "bool" /\ d[k].success.b})
get_failed_count(d) ==
    Cardinality({k \in DOMAIN d : ~(d[k].success.ty = "bool" /\ d[k].success.b)})
get_stats(d) ==
    [total |-> get_processed_count(d), successful |-> get_successful_count(d),
     failed |-> get_failed_count(d)]

\* The process stops and a new GoogleDriveFileHandler is constructed:
\* the session set starts empty and the tracker loads the file.
Restart ==
    /\ processed_files' = {}
    /\ tracker' = load_history(tracker_file)
    /\ HistoryOfLedgerOp("init", {})
    /\ UNCHANGED <<tracker_file, pendingRetry>>

\* The handler and its tracker as constructed, no ledger file on disk
IdleTracker ==
    /\ processed_files = {}
    /\ tracker_file = NoFile
    /\ tracker = load_history(NoFile)
    /\ op = "init"
    /\ listed = {}
    /\ oversized = {}
    /\ ran = {}
    /\ outcome = EmptyDict
    /\ had_entry = {}
    /\ pendingRetry = {}

NextTracker ==
    \/ \E x \in Files : process_audio_file(x)
    \/ monitor_folder
    \/ process_existing_files
    \/ \E x \in Files : remove_file(x)
    \/ clear_history
    \/ Restart

\* The tracker used on its own
NextLedger ==
    \/ mark_as_processed
    \/ \E file_id \in Files : remove_file(file_id)
    \/ clear_history

-----------------------------------------------------------------------------
(* Strings: a str is a sequence of tokens (a word or part of a word, a     *)
(* space, "="). Cyrillic words are written in Latin transliteration:        *)
(* "nazva fail"+"u", "otsinka", "otsenka", "propuskaiemo", "propuskaem",    *)
(* "nazvanie fail"+"a", "bal" are the keywords of excel_writer.py.          *)

\* str.lower()
LowerToken(t) ==
    CASE t = "Nazva" -> "nazva"
      [] t = "Fail" -> "fail"
      [] t = "Otsinka" -> "otsinka"
      [] t = "Score" -> "score"
      [] t = "Propuskaiemo" -> "propuskaiemo"
      [] t = "High" -> "high"
      [] t = "Low" -> "low"
      [] OTHER -> t
Lower(s) == [i \in DOMAIN s |-> LowerToken(s[i])]

\* sub in s
Contains(s, sub) ==
    \E i \in 0..(Len(s) - Len(sub)) : SubSeq(s, i + 1, i + Len(sub)) = sub

\* any(keyword in s for keyword in keywords)
ContainsAny(s, keywords) == \E k \in keywords : Contains(s, k)

\* str.strip()
Strip(s) ==
    LET solid == {i \in DOMAIN s : s[i] # " "}
    IN  IF solid = {} THEN <<>>
        ELSE SubSeq(s, CHOOSE i \in solid : \A j \in solid : i <= j,
                       CHOOSE i \in solid : \A j \in solid : j <= i)

\* Python truthiness of a cell value (None or str)
Truthy(v) == v # PyNone /\ v.s # <<>>

\* The value of a singleton set; Only({e(x) : x \in {v}}) is e(v) with v
\* computed once
Only(S) == CHOOSE x \in S : TRUE

\* The elements of a set of integers in increasing order
SortedSeq(S) ==
    [i \in 1..Cardinality(S) |-> CHOOSE c \in S : Cardinality({d \in S : d < c}) = i - 1]

-----------------------------------------------------------------------------
(* ExcelDataWriter: the local-workbook backend                              *)

\* header_row default of every writer method
XlsHeaderRow == 2

\* A worksheet: the cell values of rows 1..XlsMaxRow, and max_row (openpyxl:
\* the largest row holding a cell object; worksheet.cell(row, column)
\* creates the cell, and save / load_workbook keep the cell objects).
\* max_column is the width of the rows.
CellAt(w, r, c) == IF r <= Len(w.rows) THEN w.rows[r][c] ELSE PyNone
MaxColumn(w) == Len(w.rows[XlsHeaderRow])
Touch(w, r) == [w EXCEPT !.max_row = IF r > @ THEN r ELSE @]
SetCell(w, r, c, v) == [Touch(w, r) EXCEPT !.rows[r][c] = v]

\* header_map of write_data_to_row (lines 80-84): the dict from stripped
\* header text to column, `col` the mapping (a repeated header keeps the
\* last column) and `order` the keys in insertion order. keys is the key
\* of each column with a truthy header.
HeaderMap(w, header_row) ==
    Only({
        [col |-> [n \in {keys[c] : c \in DOMAIN keys} |->
                    CHOOSE c \in DOMAIN keys :
                        keys[c] = n /\ \A d \in DOMAIN keys : keys[d] = n => d <= c],
         order |-> Only({ [i \in DOMAIN ord |-> keys[ord[i]]]
                    : ord \in {SortedSeq({c \in DOMAIN keys :
                                \A d \in DOMAIN keys : d < c => keys[d] # keys[c]})} })]
        : keys \in {[c \in {c \in 1..MaxColumn(w) : Truthy(CellAt(w, header_row, c))}
                        |-> Strip(CellAt(w, header_row, c).s)]} })

SkipNameKeywords == {<<"otsinka">>, <<"otsenka">>}
SkipMarkers == {<<"propuskaiemo">>, <<"propuskaem">>}

\* _should_skip_field
should_skip_field(w, field_name, target_row, col_num) ==
    LET current_value == CellAt(w, target_row, col_num)
    IN  \/ ContainsAny(Lower(field_name), SkipNameKeywords)
        \/ Truthy(current_value) /\ ContainsAny(Lower(current_value.s), SkipMarkers)
        \/ Truthy(current_value) /\ current_value.s[1] = "="

\* The rows after the loop over data.items() (lines 89-118): each field
\* found in header_map and not skipped, whose value is neither None nor "",
\* is written to its own column. Returns the worksheet and written_fields.
WriteFields(w, data, target_row, hm) ==
    LET found == {f \in DOMAIN data.fields : f \in DOMAIN hm.col}
        wr == {f \in found :
                 /\ ~should_skip_field(w, f, target_row, hm.col[f])
                 /\ data.fields[f] # PyNone
                 /\ data.fields[f] # PyStr(<<>>)}
        looked == {f \in found : ~ContainsAny(Lower(f), SkipNameKeywords)}
        w1 == IF looked = {} THEN w ELSE Touch(w, target_row)
    IN  [w |-> [w1 EXCEPT !.rows[target_row] =
                   [c \in DOMAIN @ |->
                       IF \E f \in wr : hm.col[f] = c
                       THEN data.fields[CHOOSE f \in wr : hm.col[f] = c]
                       ELSE @[c]]],
         written |-> Cardinality(wr)]

FilenameFields ==
    << <<"nazva", " ", "fail", "u">>, <<"nazvanie", " ", "fail", "a">>, <<"filename">>,
       <<"file", " ", "name">>, <<"fail">> >>

\* os.path.splitext(os.path.basename(filename))[0], a path being
\* [dir, stem, ext]
clean_filename(filename) == <<filename.stem>>

\* _write_filename_field writing the name into the row below the headers
\* instead of the target row
write_filename_field_template(w, filename, target_row, hm, written_fields) ==
    LET hits(k) == {i \in DOMAIN hm.order : Contains(Lower(hm.order[i]), FilenameFields[k])}
        cands == {k \in DOMAIN FilenameFields : hits(k) # {}}
    IN  IF cands = {} THEN [w |-> w, written |-> written_fields]
        ELSE LET k == CHOOSE a \in cands : \A b \in cands : a <= b
                 i == CHOOSE a \in hits(k) : \A b \in hits(k) : a <= b
             IN  [w |-> SetCell(w, XlsHeaderRow + 1, hm.col[hm.order[i]],
                                PyStr(clean_filename(filename))),
                  written |-> written_fields + 1]

\* _write_filename_field: the first candidate some header contains, and for
\* it the first such header of header_map, gets the file's base name.
write_filename_field(w, filename, target_row, hm, written_fields) ==
    LET hits(k) == {i \in DOMAIN hm.order : Contains(Lower(hm.order[i]), FilenameFields[k])}
        cands == {k \in DOMAIN FilenameFields : hits(k) # {}}
    IN  IF cands = {} THEN [w |-> w, written |-> written_fields]
        ELSE LET k == CHOOSE a \in cands : \A b \in cands : a <= b
                 i == CHOOSE a \in hits(k) : \A b \in hits(k) : a <= b
             IN  [w |-> SetCell(w, target_row, hm.col[hm.order[i]], PyStr(clean_filename(filename))),
                  written |-> written_fields + 1]

ScoreKeywords == {<<"otsinka">>, <<"otsenka">>, <<"score">>, <<"rating">>, <<"bal">>}
DigitStr == <<"0", "1", "2", "3", "4", "5", "6", "7", "8", "9">>

\* _update_score_field: the first header of header_map that holds a score
\* keyword and is not skipped gets str(total_score).
update_score_field(w, total_score, target_row, hm) ==
    LET named == {i \in DOMAIN hm.order : ContainsAny(Lower(hm.order[i]), ScoreKeywords)}
        hits == {i \in named :
                    ~should_skip_field(w, hm.order[i], target_row, hm.col[hm.order[i]])}
    IN  IF hits = {} THEN w
        ELSE LET i == CHOOSE a \in hits : \A b \in hits : a <= b
             IN  SetCell(w, target_row, hm.col[hm.order[i]],
                         PyStr(<<DigitStr[total_score + 1]>>))

\* write_data_to_row: returns the worksheet and the bool it returns.
\* hm is header_map, a the state after the loop over the fields, b after
\* the file name step; the score step comes last and is not counted.
write_data_to_row(w, data, target_row, header_row, filename) ==
    Only({ Only({ Only({
        [w |-> IF data.total_score # PyNone
               THEN update_score_field(b.w, data.total_score.n, target_row, hm)
               ELSE b.w,
         ok |-> b.written > 0]
        : b \in {IF filename # PyNone
                 THEN write_filename_field(a.w, filename, target_row, hm, a.written)
                 ELSE a} })
        : a \in {WriteFields(w, data, target_row, hm)} })
        : hm \in {HeaderMap(w, header_row)} })

\* find_next_empty_row: returns the worksheet (cells looked at now exist)
\* and the row
find_next_empty_row(w, header_row) ==
    LET start_row == header_row + 1
        is_empty(r) == \A c \in 1..MaxColumn(w) :
                          \/ CellAt(w, r, c) = PyNone
                          \/ Strip(CellAt(w, r, c).s) = <<>>
        empties == {r \in start_row..(w.max_row + 1) : is_empty(r)}
    IN  IF empties = {}
        THEN [w |-> w, row |-> w.max_row + 1]
        ELSE LET r == CHOOSE a \in empties : \A b \in empties : a <= b
             IN  [w |-> Touch(w, r), row |-> r]

\* add_new_row_with_data: returns the worksheet, the row found and the row
\* returned (0: None)
add_new_row_with_data(w, data, header_row, filename) ==
    Only({ Only({
        [w |-> r.w, found |-> f.row, row |-> IF r.ok THEN f.row ELSE 0]
        : r \in {write_data_to_row(f.w, data, f.row, header_row, filename)} })
        : f \in {find_next_empty_row(w, header_row)} })

\* The sheets the writer is opened on: row 1 a title, row 2 the headers,
\* row 3 a row prepared in the template, the rows below blank.
Marker == PyStr(<<"Propuskaiemo">>)
Formula == PyStr(<<"=", "SUM">>)
Client == <<"Kliient">>
HeaderLayouts ==
    { <<PyStr(Client), PyStr(<<"Nazva", " ", "fail", "u">>), PyStr(<<"Score">>)>>,
      <<PyStr(Client), PyStr(<<"Otsinka">>), PyStr(<<"Fail">>)>>,
      <<PyStr(Client), PyNone, PyStr(<<" ", "Kliient", " ">>)>>,
      <<PyStr(Client), PyStr(Client), PyStr(<<"Fail">>)>> }
BlankRow == <<PyNone, PyNone, PyNone>>
PreparedRows ==
    { BlankRow,
      <<Marker, Formula, Marker>>,
      <<PyNone, Marker, Formula>>,
      <<PyStr(<<"val">>), PyNone, PyNone>> }
Workbooks ==
    { [rows |-> [r \in 1..XlsMaxRow |->
                    IF r = 1 THEN <<PyStr(<<"Zvit">>), PyNone, PyNone>>
                    ELSE IF r = XlsHeaderRow THEN h
                    ELSE IF r = XlsHeaderRow + 1 THEN t
                    ELSE BlankRow],
       max_row |-> IF t = BlankRow THEN XlsHeaderRow ELSE XlsHeaderRow + 1]
      : h \in HeaderLayouts, t \in PreparedRows }

\* The analysed data handed to the writer, the values of named fields and
\* data['_total_score'] (None: no such key): no field; one field with a
\* value, with "" and with None; the field and the score field; the names
\* the reader gives two columns headed alike. And the audio file's path.
AnalyzedData ==
    { [fields |-> EmptyDict, total_score |-> PyNone],
      [fields |-> [k \in {Client} |-> PyStr(<<"val">>)], total_score |-> PyInt(3)],
      [fields |-> [k \in {Client} |-> PyStr(<<>>)], total_score |-> PyInt(3)],
      [fields |-> [k \in {Client} |-> PyNone], total_score |-> PyNone],
      [fields |-> [k \in {Client, <<"Otsinka">>} |-> PyStr(<<"val">>)], total_score |-> PyInt(3)],
      [fields |-> [k \in {Client, Client \o <<"_", "2">>} |->
                     IF k = Client THEN PyStr(<<"val">>) ELSE PyStr(<<"val2">>)],
       total_score |-> PyNone] }
AudioPaths == {PyNone} \cup {[dir |-> "audio", stem |-> s, ext |-> ".mp3"] : s \in {"a", " "}}

XFindNextEmptyRow ==
    \E f \in {find_next_empty_row(ws, XlsHeaderRow)} :
        /\ ws' = f.w
        /\ xop' = "find_next_empty_row" /\ row' = f.row /\ ok' = FALSE
        /\ xdata' = PyNone /\ UNCHANGED <<xfile, xresult>>
        /\ UNCHANGED <<trackerVars, sheetsVars, readerVars, transcriberVars, watcherVars>>

XWriteDataToRow ==
    \E data \in AnalyzedData, target_row \in (XlsHeaderRow + 1)..XlsMaxRow,
       filename \in AudioPaths :
        \E r \in {write_data_to_row(ws, data, target_row, XlsHeaderRow, filename)} :
            /\ ws' = r.w
            /\ xop' = "write_data_to_row" /\ row' = target_row /\ ok' = r.ok
            /\ xdata' = data /\ UNCHANGED <<xfile, xresult>>
            /\ UNCHANGED <<trackerVars, sheetsVars, readerVars, transcriberVars, watcherVars>>

XAddNewRowWithData ==
    \E data \in AnalyzedData, filename \in AudioPaths :
        /\ find_next_empty_row(ws, XlsHeaderRow).row <= XlsMaxRow
        /\ \E r \in {add_new_row_with_data(ws, data, XlsHeaderRow, filename)} :
            /\ ws' = r.w
            /\ xop' = "add_new_row_with_data" /\ row' = r.found /\ ok' = (r.row # 0)
            /\ xdata' = data /\ UNCHANGED <<xfile, xresult>>
            /\ UNCHANGED <<trackerVars, sheetsVars, readerVars, transcriberVars, watcherVars>>

\* No writer open
IdleExcel ==
    /\ ws = NoFile /\ xop = "idle" /\ row = 0 /\ ok = FALSE /\ xdata = PyNone
    /\ xfile = NoFile /\ xresult = PyNone

NextExcel ==
    \/ XFindNextEmptyRow
    \/ XWriteDataToRow
    \/ XAddNewRowWithData

\* write_data_to_row when a cell write raises (worksheet.cell(..., value)
\* on a merged cell, or with a value openpyxl cannot convert): `step` is
\* the step whose write raises, "filename" or "score", after the steps
\* before it wrote their cells; the handler of line 134 returns False. A
\* step that has nothing to write does not raise. "none": no write raises.
write_data_to_row_raising(w, data, target_row, header_row, filename, step) ==
    Only({ Only({ Only({
        IF step = "filename" /\ b.written > a.written
        THEN [w |-> a.w, ok |-> FALSE]
        ELSE IF step = "score" /\ data.total_score # PyNone
                /\ update_score_field(b.w, data.total_score.n, target_row, hm) # b.w
        THEN [w |-> b.w, ok |-> FALSE]
        ELSE write_data_to_row(w, data, target_row, header_row, filename)
        : b \in {IF filename # PyNone
                 THEN write_filename_field(a.w, filename, target_row, hm, a.written)
                 ELSE a} })
        : a \in {WriteFields(w, data, target_row, hm)} })
        : hm \in {HeaderMap(w, header_row)} })

\* result['error'] of write_analyzed_data_to_excel (lines 465 and 467)
WriteError == PyStr(<<"Pomylka", " ", "pry", " ", "zapysi", " ", "danykh">>)
SaveError == PyStr(<<"Pomylka", " ", "pry", " ", "zberezhenni", " ", "fail", "u">>)

\* write_analyzed_data_to_excel saving the workbook whatever the row
\* write returned
write_analyzed_data_to_excel_saved_anyway(file, load, data, target_row, header_row, filename, step, save) ==
    IF load = Failure
    THEN [file |-> file, w |-> NoFile, row |-> 0,
          result |-> [success |-> FALSE, written_row |-> PyNone,
                      error |-> PyStr(<<"Exception">>)]]
    ELSE Only({ Only({
        [file |-> IF save # Failure THEN r.w ELSE file,
         w |-> r.w, row |-> t.row,
         result |-> [success |-> r.ok /\ save # Failure,
                     written_row |-> IF r.ok THEN PyInt(t.row) ELSE PyNone,
                     error |-> IF ~r.ok THEN WriteError
                               ELSE IF save = Failure THEN SaveError ELSE PyNone]]
        : r \in {write_data_to_row_raising(t.w, data, t.row, header_row, filename, step)} })
        : t \in {IF target_row # PyNone THEN [w |-> file, row |-> target_row.n]
                 ELSE find_next_empty_row(file, header_row)} })

\* write_analyzed_data_to_excel(excel_file_path, analyzed_data, None,
\* target_row, header_row, filename): `file` is the workbook on disk, load
\* the outcome of opening it (Failure: the constructor raised), save the
\* outcome of workbook.save (Failure: save_file caught an error raised
\* before the file was written, as os.makedirs or opening it for writing
\* do). With target_row None the row is the one find_next_empty_row gives
\* (add_new_row_with_data). Returns the file on disk, the worksheet in
\* memory when the writer is closed, the row written to and the result.
write_analyzed_data_to_excel(file, load, data, target_row, header_row, filename, step, save) ==
    IF load = Failure
    THEN [file |-> file, w |-> NoFile, row |-> 0,
          result |-> [success |-> FALSE, written_row |-> PyNone,
                      error |-> PyStr(<<"Exception">>)]]
    ELSE Only({ Only({
        [file |-> IF r.ok /\ save # Failure THEN r.w ELSE file,
         w |-> r.w, row |-> t.row,
         result |-> [success |-> r.ok /\ save # Failure,
                     written_row |-> IF r.ok THEN PyInt(t.row) ELSE PyNone,
                     error |-> IF ~r.ok THEN WriteError
                               ELSE IF save = Failure THEN SaveError ELSE PyNone]]
        : r \in {write_data_to_row_raising(t.w, data, t.row, header_row, filename, step)} })
        : t \in {IF target_row # PyNone THEN [w |-> file, row |-> target_row.n]
                 ELSE find_next_empty_row(file, header_row)} })

\* The workbook files: title, headers and template row as for Workbooks,
\* each row below blank or holding an earlier commit.
CommittedRow == <<PyStr(<<"val">>), PyStr(<<"a">>), PyStr(<<"1">>)>>
StoredWorkbooks ==
    { [rows |-> [r \in 1..FileMaxRow |->
                    IF r = 1 THEN <<PyStr(<<"Zvit">>), PyNone, PyNone>>
                    ELSE IF r = XlsHeaderRow THEN h
                    ELSE IF r = XlsHeaderRow + 1 THEN t
                    ELSE IF r \in below THEN CommittedRow ELSE BlankRow],
       max_row |-> IF below # {} THEN CHOOSE r \in below : \A q \in below : q <= r
                   ELSE IF t = BlankRow THEN XlsHeaderRow ELSE XlsHeaderRow + 1]
      : h \in HeaderLayouts, t \in PreparedRows,
        below \in SUBSET ((XlsHeaderRow + 2)..FileMaxRow) }

\* One call of write_analyzed_data_to_excel on a stored workbook (the
\* function keeps nothing but the file). A row allocated beyond FileMaxRow
\* is left out.
XWriteAnalyzedDataToExcel ==
    /\ xop = "stored"
    /\ \E load \in {PyNone, Failure}, data \in AnalyzedData,
          target_row \in {PyNone} \cup {PyInt(r) : r \in (XlsHeaderRow + 1)..FileMaxRow},
          filename \in AudioPaths, step \in {"none", "filename", "score"},
          save \in {PyNone, Failure} :
        /\ target_row = PyNone => find_next_empty_row(xfile, XlsHeaderRow).row <= FileMaxRow
        /\ \E r \in {write_analyzed_data_to_excel(xfile, load, data, target_row,
                                                   XlsHeaderRow, filename, step, save)} :
            /\ xfile' = r.file /\ ws' = r.w
            /\ xop' = "write_analyzed_data_to_excel"
            /\ row' = r.row /\ ok' = r.result.success
            /\ xdata' = data /\ xresult' = r.result
    /\ UNCHANGED <<trackerVars, sheetsVars, readerVars, transcriberVars, watcherVars>>

NextWorkbook == XWriteAnalyzedDataToExcel

-----------------------------------------------------------------------------
(* GoogleSheetsHandler: the cloud backend                                   *)

\* start_row default of find_next_empty_row; the rows above it are the
\* title, the header row and the template row
SheetsTemplateRow == 3
SheetsHeaderRow == 2
\* find_next_empty_row looks at row[:5]
SheetsPrefixCols == 5

\* The grid of a worksheet: user-entered values of rows 1..ShMaxRow
\* (None: no value). The displayed value of a cell, as get_all_values and
\* row_values return it: a formula shows its result.
Displayed(v) == IF v = PyNone THEN <<>> ELSE IF v.s # <<>> /\ v.s[1] = "=" THEN <<"0">> ELSE v.s
IsBlank(text) == text = <<>> \/ Strip(text) = <<>>

\* worksheet.get_all_values(): the rows down to the last one that shows a
\* value
get_all_values(g) ==
    LET shown == {r \in DOMAIN g : \E c \in DOMAIN g[r] : Displayed(g[r][c]) # <<>>}
    IN  [r \in 1..Cardinality({r \in DOMAIN g : \E q \in shown : r <= q}) |->
            [c \in DOMAIN g[r] |-> Displayed(g[r][c])]]

\* GoogleSheetsHandler.find_next_empty_row
sheets_find_next_empty_row(g, start_row) ==
    Only({ LET empties == {r \in start_row..Len(all_values) :
                             \A c \in 1..SheetsPrefixCols :
                                c \in DOMAIN all_values[r] => IsBlank(all_values[r][c])}
           IN  IF empties = {} THEN Len(all_values) + 1
               ELSE CHOOSE a \in empties : \A b \in empties : a <= b
         : all_values \in {get_all_values(g)} })

\* _copy_entire_row: format, validation and conditional formatting of the
\* source row go to the target row, and updateCells with the field mask
\* userEnteredValue clears the values of the target row
copy_entire_row(g, source_row, target_row) ==
    [g EXCEPT ![target_row] = [c \in DOMAIN @ |-> PyNone]]

\* worksheet.batch_update / worksheet.update of one cell; a cell given ""
\* has no value
UpdateCell(g, r, c, text) ==
    [g EXCEPT ![r][c] = IF text = <<>> THEN PyNone ELSE PyStr(text)]

\* header_map of write_data_to_row (lines 492-498): stripped header text to
\* column, a repeated header keeps the last column
SheetsHeaderMap(g, header_row) ==
    Only({ [n \in {Strip(headers[c]) : c \in {c \in DOMAIN headers : ~IsBlank(headers[c])}} |->
              CHOOSE c \in DOMAIN headers :
                 /\ Strip(headers[c]) = n
                 /\ \A d \in DOMAIN headers : Strip(headers[d]) = n => d <= c]
         : headers \in {[c \in DOMAIN g[header_row] |-> Displayed(g[header_row][c])]} })

SheetsFilenameFields == << <<"Nazva", " ", "fail", "u">>, <<"Fail">>, <<"Filename">> >>
SheetsTranscriptFields == << <<"Transkrypt">>, <<"Transkryptsiia">>, <<"Tekst">>, <<"Transcript">> >>
SheetsScoreFields == << <<"Otsinka">>, <<"Zahalnyi", " ", "bal">>, <<"Suma">>, <<"Total">> >>

\* The first name of the list that is a key of header_map writes text to
\* its column (the loops with break of lines 517-526, 530-541, 549-559)
WriteFirstMatch(g, names, hm, target_row, text) ==
    LET hits == {i \in DOMAIN names : names[i] \in DOMAIN hm}
    IN  IF hits = {} THEN g
        ELSE UpdateCell(g, target_row, hm[names[CHOOSE a \in hits : \A b \in hits : a <= b]], text)

\* formula = f"=F{target_row}+G{target_row}+..."
ScoreFormula(target_row) ==
    LET letters == <<"F", "G", "H", "I", "J", "K", "M", "O">>
    IN  <<"=">> \o [i \in 1..(3 * Len(letters) - 1) |->
                      IF i % 3 = 1 THEN letters[(i + 2) \div 3]
                      ELSE IF i % 3 = 2 THEN DigitStr[target_row + 1] ELSE "+"]

\* write_data_to_row for the row target_row (given, or found before):
\* copy the template row (copy_ok: the batchUpdate went through; its
\* failure is logged and ignored), write str(value) of every field of data
\* that header_map knows, then the file name, the transcript, the formula.
sheets_write_data_to_row(g, data, target_row, header_row, filename, transcript, copy_ok) ==
    Only({ Only({ Only({ Only({ Only({
        WriteFirstMatch(s3, SheetsScoreFields, hm, target_row, ScoreFormula(target_row))
        : s3 \in {IF transcript # PyNone
                  THEN WriteFirstMatch(s2, SheetsTranscriptFields, hm, target_row, transcript.s)
                  ELSE s2} })
        : s2 \in {IF filename # PyNone
                  THEN WriteFirstMatch(s1, SheetsFilenameFields, hm, target_row, filename.s)
                  ELSE s1} })
        : s1 \in {[s0 EXCEPT ![target_row] =
                    [c \in DOMAIN @ |->
                        IF \E f \in DOMAIN data : f \in DOMAIN hm /\ hm[f] = c
                        THEN UpdateCell(s0, target_row, c,
                                 data[CHOOSE f \in DOMAIN data : f \in DOMAIN hm /\ hm[f] = c].s)[target_row][c]
                        ELSE @[c]]]} })
        : hm \in {SheetsHeaderMap(s0, header_row)} })
        : s0 \in {IF copy_ok THEN copy_entire_row(g, SheetsTemplateRow, target_row) ELSE g} })

\* written_fields of write_data_to_row (lines 501-541): one for every
\* field of data that header_map knows, one for the file name and one for
\* the transcript when a header of their lists is there; each goes with one
\* cell of the target row in `updates`. The formula is not counted.
sheets_written_fields(g, data, header_row, filename, transcript) ==
    Only({ Cardinality({f \in DOMAIN data : f \in DOMAIN hm})
           + (IF /\ filename # PyNone
                 /\ \E i \in DOMAIN SheetsFilenameFields : SheetsFilenameFields[i] \in DOMAIN hm
              THEN 1 ELSE 0)
           + (IF /\ transcript # PyNone
                 /\ \E i \in DOMAIN SheetsTranscriptFields :
                       SheetsTranscriptFields[i] \in DOMAIN hm
              THEN 1 ELSE 0)
         : hm \in {SheetsHeaderMap(g, header_row)} })

\* The worksheets: row 1 a title, row 2 the headers, row 3 the template
\* row, the rows from 4 on data rows.
SheetsHeaders ==
    { <<PyStr(Client), PyStr(<<"Fail">>), PyStr(<<"Otsinka">>), PyNone, PyNone, PyStr(<<"Komentar">>)>>,
      <<PyStr(<<" ", "Kliient">>), PyStr(<<"Transkrypt">>), PyNone, PyNone, PyNone, PyStr(<<"Komentar">>)>> }
BlankSheetRow == [c \in 1..(SheetsPrefixCols + 1) |-> PyNone]
SheetsRows == {BlankSheetRow, [BlankSheetRow EXCEPT ![1] = Marker, ![3] = Formula]}
Worksheets ==
    { [r \in 1..ShMaxRow |->
         IF r = 1 THEN [BlankSheetRow EXCEPT ![1] = PyStr(<<"Zvit">>)]
         ELSE IF r = SheetsHeaderRow THEN h
         ELSE IF r = SheetsTemplateRow THEN t
         ELSE IF r = SheetsStartRow THEN d
         ELSE BlankSheetRow]
      : h \in SheetsHeaders, t \in SheetsRows, d \in SheetsRows }

\* data: Dict[str, str] of write_data_to_row, and its filename and
\* transcript, which the caller has both or has not
SheetsData ==
    UNION {[K -> {PyStr(<<"val">>), PyStr(<<>>)}] : K \in SUBSET {Client}}
        \cup {[k \in {<<"Komentar">>} |-> PyStr(<<"val">>)]}
SheetsSources ==
    { [filename |-> PyNone, transcript |-> PyNone],
      [filename |-> PyStr(<<"a", ".mp3">>), transcript |-> PyStr(<<"txt">>)] }

SFindNextEmptyRow ==
    /\ sheet' = sheet
    /\ sop' = "find_next_empty_row"
    /\ srow' = sheets_find_next_empty_row(sheet, SheetsStartRow)
    /\ sok' = FALSE /\ sauto' = FALSE /\ swritten' = 0
    /\ UNCHANGED <<trackerVars, excelVars, readerVars, transcriberVars, watcherVars>>

\* write_data_to_row; target_row 0 is None, a given target row is a data
\* row. The method returns False, here with nothing written, when a call
\* of the Sheets API raises.
SWriteDataToRow ==
    \E target_row \in {0} \cup SheetsStartRow..ShMaxRow :
        \E r \in {IF target_row = 0 THEN sheets_find_next_empty_row(sheet, SheetsStartRow)
                   ELSE target_row} :
            /\ r <= ShMaxRow
            /\ \/ \E data \in SheetsData, source \in SheetsSources, copy_ok \in BOOLEAN :
                    /\ sheet' = sheets_write_data_to_row(sheet, data, r, SheetsHeaderRow,
                                     source.filename, source.transcript, copy_ok)
                    /\ swritten' = sheets_written_fields(sheet, data, SheetsHeaderRow,
                                        source.filename, source.transcript)
                    /\ sok' = TRUE
               \/ sheet' = sheet /\ sok' = FALSE /\ swritten' = 0
            /\ sop' = "write_data_to_row"
            /\ srow' = r /\ sauto' = (target_row = 0)
            /\ UNCHANGED <<trackerVars, excelVars, readerVars, transcriberVars, watcherVars>>

\* No worksheet in hand
IdleSheets ==
    /\ sheet = NoFile /\ sop = "idle" /\ srow = 0 /\ sok = FALSE /\ sauto = FALSE
    /\ swritten = 0

NextSheets ==
    \/ SFindNextEmptyRow
    \/ SWriteDataToRow

-----------------------------------------------------------------------------
(* ExcelDataReader: the local schema reader                                 *)

\* The scan of read_data (lines 127-175): header_values, the stripped text
\* of the header cells of columns 1, 2, ... up to the first cell that is
\* None or up to max_column.
ScanHeader(cells) ==
    LET nones == {c \in DOMAIN cells : cells[c] = PyNone}
        last == IF nones = {} THEN Len(cells)
                ELSE (CHOOSE c \in nones : \A d \in nones : c <= d) - 1
    IN  [c \in 1..last |-> Strip(cells[c].s)]

\* keys_dict[unique_key] = value: a dict as the sequence of its items in
\* insertion order; assigning to a key it has replaces the value in place
DictAssign(items, key, value) ==
    IF \E p \in DOMAIN items : items[p].key = key
    THEN [p \in DOMAIN items |->
            IF items[p].key = key THEN [key |-> key, value |-> value] ELSE items[p]]
    ELSE Append(items, [key |-> key, value |-> value])

\* The loop of lines 179-194 over the first n header values: key_counts
\* counts the occurrences of the key as read, the second and later ones get
\* f"{key}_{key_counts[key]}", and the value is data_values[i], the data
\* cell of column i.
RECURSIVE KeysDict(_, _)
KeysDict(hv, n) ==
    IF n = 0 THEN <<>>
    ELSE LET key == hv[n]
             seen == Cardinality({j \in 1..(n - 1) : hv[j] = key})
             unique_key == IF seen > 0 THEN key \o <<"_", DigitStr[seen + 2]>> ELSE key
         IN  DictAssign(KeysDict(hv, n - 1), unique_key, n)

\* The header rows read: a cell is empty (None) or holds a name, padded or
\* not, a name of the suffixed form, or spaces only
HeaderCells ==
    {PyNone, PyStr(<<"X">>), PyStr(<<" ", "X">>), PyStr(<<"X", "_", "2">>), PyStr(<<" ">>)}
HeaderRows == [1..MaxHeaderCols -> HeaderCells]

\* read_data(header_row, data_row)
read_data ==
    /\ rop = "ExcelDataReader"
    /\ rop' = "read_data"
    /\ header_values' = ScanHeader(header_cells)
    /\ keys_dict' = KeysDict(ScanHeader(header_cells), Len(ScanHeader(header_cells)))
    /\ UNCHANGED <<header_cells, srop, sfields, trackerVars, excelVars, sheetsVars,
                   transcriberVars, watcherVars>>

\* The loop of GoogleSheetsHandler.read_data (lines 246-262) over the
\* first n headers, as get_all_values shows them: a header that strips to
\* "" is passed over, and result[field_name] = {'column': col_num, ...}
\* is assigned for the others.
RECURSIVE SheetsFields(_, _)
SheetsFields(headers, n) ==
    IF n = 0 THEN <<>>
    ELSE IF IsBlank(headers[n]) THEN SheetsFields(headers, n - 1)
    ELSE DictAssign(SheetsFields(headers, n - 1), Strip(headers[n]), n)

\* GoogleSheetsHandler.read_data(spreadsheet_id, worksheet_name) on a
\* worksheet with the same header row. enough tells whether
\* get_all_values returns at least data_row rows (the template row or a
\* row below it shows a value); if not the method returns {} (line 233).
sheets_read_data ==
    /\ srop = "GoogleSheetsHandler"
    /\ \E enough \in BOOLEAN :
        /\ srop' = IF enough THEN "read_data" ELSE "read_data: too few rows"
        /\ sfields' = IF enough
                      THEN SheetsFields([c \in DOMAIN header_cells |->
                                            Displayed(header_cells[c])], Len(header_cells))
                      ELSE <<>>
    /\ UNCHANGED <<header_cells, rop, header_values, keys_dict, trackerVars, excelVars,
                   sheetsVars, transcriberVars, watcherVars>>

\* No reader open
IdleReader ==
    /\ header_cells = <<>> /\ rop = "idle" /\ header_values = <<>> /\ keys_dict = <<>>
    /\ srop = "idle" /\ sfields = <<>>

NextReader == read_data \/ sheets_read_data

-----------------------------------------------------------------------------
(* AudioTranscriber: extraction, evaluation and the local pipeline          *)
(* The text of a response is a str of tokens: words, digits, " ", ",",     *)
(* ":", "-" and "\n". The Cyrillic words of transcriber.py are written in   *)
(* Latin transliteration: the check names "vvichlyvist", "profesiinist",    *)
(* "shvydkist", "vyrishennia", "protokol"; "zahalna otsinka",               *)
(* "rekomendatsii", "problem"; the sentinels "Ne vkazano" and               *)
(* "Pomylka analizu".                                                       *)

\* str.split(sep)
RECURSIVE Split(_, _)
Split(s, sep) ==
    IF \A i \in DOMAIN s : s[i] # sep THEN <<s>>
    ELSE LET i == CHOOSE a \in DOMAIN s : s[a] = sep /\ \A b \in 1..(a - 1) : s[b] # sep
         IN  <<SubSeq(s, 1, i - 1)>> \o Split(SubSeq(s, i + 1, Len(s)), sep)

\* The number a str of decimal digits denotes
RECURSIVE DecimalValue(_)
DecimalValue(d) ==
    IF d = <<>> THEN 0
    ELSE 10 * DecimalValue(SubSeq(d, 1, Len(d) - 1))
         + (CHOOSE n \in 0..9 : DigitStr[n + 1] = d[Len(d)])

\* int(s): PyNone stands for ValueError
int(s) ==
    LET t == Strip(s)
        digits == IF t # <<>> /\ t[1] = "-" THEN Tail(t) ELSE t
        isnum == digits # <<>> /\ \A i \in DOMAIN digits :
                                     \E n \in 0..9 : DigitStr[n + 1] = digits[i]
    IN  IF ~isnum THEN PyNone
        ELSE IF t[1] = "-" THEN PyInt(0 - DecimalValue(digits))
        ELSE PyInt(DecimalValue(digits))

\* The parse loop of both batches (lines 243-269, 333-349): of the pieces
\* of result_text.split(',') that hold a ':', those whose field number
\* int() accepts, in order, each with its number and its stripped value.
\* A piece int() rejects is logged and passed over (continue).
ParsedSegments(result_text) ==
    LET pieces == Split(result_text, ",")
        head(p) == Split(Strip(p), ":")[1]
        seg(p) == [num |-> int(head(p)),
                   value |-> Strip(SubSeq(Strip(p), Len(head(p)) + 2, Len(Strip(p))))]
        good == {i \in DOMAIN pieces :
                    Contains(pieces[i], <<":">>) /\ seg(pieces[i]).num # PyNone}
    IN  [k \in 1..Cardinality(good) |-> seg(pieces[SortedSeq(good)[k]])]

\* The fields of a batch in the order their results are inserted: the
\* fields some parsed segment numbers, in the order of their first segment
\* and with the value of their last one (results[field_name] = ... in the
\* loop), then the fields no segment numbered, in field order (lines
\* 271-276, 351-355), `parsed` being PyNone for them. field_mappings
\* numbers the fields 1, 2, ... in dict order.
BatchResults(fields, segs) ==
    LET hits(j) == {i \in DOMAIN segs : segs[i].num.n = j}
        rank(j) == IF hits(j) = {} THEN Len(segs) + j
                   ELSE CHOOSE a \in hits(j) : \A b \in hits(j) : a <= b
        order == SortedSeq({rank(j) : j \in DOMAIN fields})
    IN  [p \in DOMAIN order |->
            LET j == CHOOSE a \in DOMAIN fields : rank(a) = order[p]
            IN  [field |-> fields[j],
                 parsed |-> IF hits(j) = {} THEN PyNone
                            ELSE PyStr(segs[CHOOSE a \in hits(j) : \A b \in hits(j) : b <= a].value)]]

\* ValidOption without the membership test of line 259
ValidOption_unchecked(field_info, value) == PyStr(value)

\* Lines 259-266: the value if it is one of dropdown_options, else the
\* first option
ValidOption(field_info, value) ==
    IF \E k \in DOMAIN field_info.dropdown_options : field_info.dropdown_options[k] = value
    THEN PyStr(value)
    ELSE PyStr(field_info.dropdown_options[1])

\* _analyze_all_dropdown_fields where a segment int() rejects sends the
\* whole batch to the fallback
analyze_all_dropdown_fields_whole_batch(dropdown_fields, answer) ==
    IF dropdown_fields = <<>> THEN [results |-> <<>>, generated |-> <<>>]
    ELSE LET FirstOption(field_info) == PyStr(field_info.dropdown_options[1])
             malformed == answer # Failure
                          /\ Cardinality({i \in DOMAIN Split(Strip(answer.s), ",") :
                                Contains(Split(Strip(answer.s), ",")[i], <<":">>)})
                             # Len(ParsedSegments(Strip(answer.s)))
         IN  [results |->
                IF answer = Failure \/ malformed
                THEN [j \in DOMAIN dropdown_fields |->
                        [key |-> dropdown_fields[j].name,
                         value |-> FirstOption(dropdown_fields[j])]]
                ELSE Only({ [p \in DOMAIN br |->
                                [key |-> br[p].field.name,
                                 value |-> IF br[p].parsed = PyNone
                                           THEN FirstOption(br[p].field)
                                           ELSE ValidOption(br[p].field, br[p].parsed.s)]]
                            : br \in {BatchResults(dropdown_fields,
                                                    ParsedSegments(Strip(answer.s)))} }),
              generated |-> <<[prompt |-> "dropdown", outcome |-> answer]>>]

\* _analyze_all_dropdown_fields(text, dropdown_fields) when generate_content
\* gives `answer`: the results and the generate_content calls made.
\* fill_excel_data passes only fields with dropdown_options (line 509), so
\* field_mappings numbers every field.
analyze_all_dropdown_fields(dropdown_fields, answer) ==
    IF dropdown_fields = <<>> THEN [results |-> <<>>, generated |-> <<>>]
    ELSE LET FirstOption(field_info) == PyStr(field_info.dropdown_options[1])
         IN  [results |->
                IF answer = Failure
                THEN [j \in DOMAIN dropdown_fields |->
                        [key |-> dropdown_fields[j].name,
                         value |-> FirstOption(dropdown_fields[j])]]
                ELSE Only({ [p \in DOMAIN br |->
                                [key |-> br[p].field.name,
                                 value |-> IF br[p].parsed = PyNone
                                           THEN FirstOption(br[p].field)
                                           ELSE ValidOption(br[p].field, br[p].parsed.s)]]
                            : br \in {BatchResults(dropdown_fields,
                                                    ParsedSegments(Strip(answer.s)))} }),
              generated |-> <<[prompt |-> "dropdown", outcome |-> answer]>>]

\* "Не вказано" (line 354) and "Помилка аналізу" (lines 362, 441)
NotSpecified == PyStr(<<"Ne", " ", "vkazano">>)
AnalysisError == PyStr(<<"Pomylka", " ", "analizu">>)

\* _analyze_all_text_fields with one generate_content call for each field
analyze_all_text_fields_per_field(text_fields, answer) ==
    IF text_fields = <<>> THEN [results |-> <<>>, generated |-> <<>>]
    ELSE [results |->
            IF answer = Failure
            THEN [j \in DOMAIN text_fields |->
                    [key |-> text_fields[j].name, value |-> AnalysisError]]
            ELSE Only({ [p \in DOMAIN br |->
                            [key |-> br[p].field.name,
                             value |-> IF br[p].parsed = PyNone THEN NotSpecified
                                       ELSE br[p].parsed]]
                        : br \in {BatchResults(text_fields,
                                                ParsedSegments(Strip(answer.s)))} }),
          generated |-> [j \in DOMAIN text_fields |->
                            [prompt |-> "text", outcome |-> answer]]]

\* _analyze_all_text_fields(text, text_fields)
analyze_all_text_fields(text_fields, answer) ==
    IF text_fields = <<>> THEN [results |-> <<>>, generated |-> <<>>]
    ELSE [results |->
            IF answer = Failure
            THEN [j \in DOMAIN text_fields |->
                    [key |-> text_fields[j].name, value |-> AnalysisError]]
            ELSE Only({ [p \in DOMAIN br |->
                            [key |-> br[p].field.name,
                             value |-> IF br[p].parsed = PyNone THEN NotSpecified
                                       ELSE br[p].parsed]]
                        : br \in {BatchResults(text_fields,
                                                ParsedSegments(Strip(answer.s)))} }),
          generated |-> <<[prompt |-> "text", outcome |-> answer]>>]

\* total_score += ... over a list of numbers
RECURSIVE Sum(_)
Sum(s) == IF s = <<>> THEN 0 ELSE s[1] + Sum(Tail(s))

\* The five checks of the rubric (line 414)
CheckNames ==
    {<<"vvichlyvist">>, <<"profesiinist">>, <<"shvydkist">>, <<"vyrishennia">>,
     <<"protokol">>}

\* _evaluate_manager_performance(transcript_text) when generate_content
\* gives `answer`. Of the lines holding a ':', those whose key is a check
\* name set scores[key] (the last one stays) and add to total_score; a
\* value int() rejects sets scores[key] = 0 and adds nothing.
evaluate_manager_performance(answer) ==
    IF answer = Failure
    THEN [ty |-> "dict", scores |-> EmptyDict, total_score |-> 0,
          overall_assessment |-> AnalysisError.s,
          recommendations |-> <<"Ne", " ", "vdalosia", " ", "proanalizuvaty">>,
          is_performance_good |-> TRUE]
    ELSE LET lines == Split(Strip(answer.s), "\n")
             with == SortedSeq({i \in DOMAIN lines : Contains(lines[i], <<":">>)})
             key(i) == Lower(Strip(Split(lines[i], ":")[1]))
             value(i) == Strip(SubSeq(lines[i], Len(Split(lines[i], ":")[1]) + 2, Len(lines[i])))
             score(i) == IF int(value(i)) = PyNone THEN 0 ELSE int(value(i)).n
             checks == SelectSeq(with, LAMBDA i : key(i) \in CheckNames)
             overall == SelectSeq(with, LAMBDA i :
                            key(i) \notin CheckNames
                            /\ Contains(key(i), <<"zahalna", " ", "otsinka">>))
             recs == SelectSeq(with, LAMBDA i :
                            /\ key(i) \notin CheckNames
                            /\ ~Contains(key(i), <<"zahalna", " ", "otsinka">>)
                            /\ Contains(key(i), <<"rekomendatsii">>))
             total == Sum([k \in DOMAIN checks |-> score(checks[k])])
             recommendations == IF recs = <<>> THEN <<>> ELSE value(recs[Len(recs)])
         IN  [ty |-> "dict",
              scores |-> [n \in {key(checks[k]) : k \in DOMAIN checks} |->
                            score(checks[CHOOSE k \in DOMAIN checks :
                                    key(checks[k]) = n
                                    /\ \A m \in DOMAIN checks : key(checks[m]) = n => m <= k])],
              total_score |-> total,
              overall_assessment |-> IF overall = <<>> THEN <<>> ELSE value(overall[Len(overall)]),
              recommendations |-> recommendations,
              is_performance_good |-> total >= 4 /\ ~Contains(Lower(recommendations), <<"problem">>)]

\* _calculate_score_from_binary_fields counting the entries that hold '1'
\* or '0' instead of adding their numbers
calculate_score_from_binary_fields_counted(filled_data) ==
    LET binary == SelectSeq(filled_data, LAMBDA it :
                    /\ it.value.analyzed_value.ty = "str"
                    /\ Strip(it.value.analyzed_value.s) \in {<<"1">>, <<"0">>})
    IN  Len(binary)

\* _calculate_score_from_binary_fields(filled_data): the sum of
\* int(value.strip()) over the entries whose analyzed_value is a str that
\* strips to '1' or '0'
calculate_score_from_binary_fields(filled_data) ==
    LET binary == SelectSeq(filled_data, LAMBDA it :
                    /\ it.value.analyzed_value.ty = "str"
                    /\ Strip(it.value.analyzed_value.s) \in {<<"1">>, <<"0">>})
    IN  Sum([k \in DOMAIN binary |-> int(Strip(binary[k].value.analyzed_value.s)).n])

\* fill_excel_data(transcript_text, excel_file_path): fields_structure is
\* what the reader gave (Failure: it raised, line 576), d, t and e what
\* generate_content gives to the dropdown batch, the text batch and the
\* rubric call. filled_data is the dict as its items in insertion order,
\* each with analyzed_value, field_type and the calculated_score mark
\* (lines 564-570); generated lists the generate_content calls.
fill_excel_data(structure, d, t, e) ==
    IF structure = Failure THEN [filled_data |-> <<>>, generated |-> <<>>]
    ELSE Only({ Only({ Only({ Only({
        [filled_data |->
            [k \in DOMAIN all |->
                [key |-> all[k].key, value |-> all[k].value,
                 calculated_score |-> k \in named /\ \A m \in named : k <= m]],
         generated |-> dr.generated \o tr.generated
                       \o <<[prompt |-> "evaluation", outcome |-> e]>>]
        : named \in {{k \in DOMAIN all :
                        /\ all[k].key \notin {<<"_manager_evaluation">>, <<"_total_score">>}
                        /\ ContainsAny(Lower(all[k].key),
                               {<<"otsinka">>, <<"otsenka">>, <<"score">>, <<"rating">>})}} })
        : all \in {Append(entries,
                     [key |-> <<"_total_score">>,
                      value |-> [analyzed_value |->
                                    PyInt(calculate_score_from_binary_fields(entries)),
                                 field_type |-> "calculated"]])} })
        : entries \in {
            [k \in DOMAIN dr.results |->
                [key |-> dr.results[k].key,
                 value |-> [analyzed_value |-> dr.results[k].value,
                            field_type |-> "dropdown"]]]
            \o [k \in DOMAIN tr.results |->
                [key |-> tr.results[k].key,
                 value |-> [analyzed_value |-> tr.results[k].value,
                            field_type |-> (CHOOSE f \in {structure.items[j] :
                                                            j \in DOMAIN structure.items} :
                                               f.name = tr.results[k].key).type]]]
            \o << [key |-> <<"_manager_evaluation">>,
                   value |-> [analyzed_value |-> evaluate_manager_performance(e),
                              field_type |-> "evaluation"]] >>} })
        : dr \in {analyze_all_dropdown_fields(
                     SelectSeq(structure.items, LAMBDA f :
                        f.type = "dropdown" /\ f.dropdown_options # <<>>), d)},
          tr \in {analyze_all_text_fields(
                     SelectSeq(structure.items, LAMBDA f :
                        ~(f.type = "dropdown" /\ f.dropdown_options # <<>>)), t)} })

\* transcribe_audio(audio_path): upload_file raised, or generate_content
\* gave `answer`; the text, or PyNone when there is none
transcribe_audio(upload, answer) ==
    IF upload = Failure THEN [text |-> PyNone, generated |-> <<>>]
    ELSE [text |-> IF answer # Failure /\ answer.s # <<>> THEN answer ELSE PyNone,
          generated |-> <<[prompt |-> "transcribe", outcome |-> answer]>>]

\* process_and_update_excel without the return of lines 673-675
process_and_update_excel_unchecked(structure, makedirs, upload, speech, d, t, e, write_result) ==
    Only({
        IF makedirs = Failure
        THEN [returned |-> Failure, generated |-> <<>>, committed |-> FALSE]
        ELSE Only({
            IF fd.filled_data = <<>>
            THEN [returned |-> [results EXCEPT
                                   !.transcript_file = PyStr(<<"transcript.txt">>),
                                   !.error = PyStr(<<"Ne", " ", "vdalosia", " ",
                                                     "proanalizuvaty", " ", "dani">>)],
                  generated |-> tr.generated \o fd.generated, committed |-> FALSE]
            ELSE [returned |->
                    IF write_result.success
                    THEN [results EXCEPT !.transcript_file = PyStr(<<"transcript.txt">>),
                                         !.updated_excel_file = PyStr(<<"file.xlsx">>),
                                         !.written_row = write_result.written_row,
                                         !.success = TRUE]
                    ELSE [results EXCEPT !.transcript_file = PyStr(<<"transcript.txt">>),
                                         !.error = PyStr(<<"Pomylka", " ", "pry", " ",
                                                           "onovlenni", " ", "Excel">>)],
                  generated |-> tr.generated \o fd.generated, committed |-> TRUE]
            : fd \in {fill_excel_data(structure, d, t, e)} })
        : results \in {[success |-> FALSE, error |-> PyNone, transcript_file |-> PyNone,
                        updated_excel_file |-> PyNone, written_row |-> PyNone]},
          tr \in {transcribe_audio(upload, speech)} })

\* process_and_update_excel(audio_path, excel_file_path). makedirs is the
\* outcome of os.makedirs: when it raises, the handler of line 723 assigns
\* to `results`, which is not bound yet, and the call raises. write_result
\* is what write_analyzed_data_to_excel returns when called.
process_and_update_excel(structure, makedirs, upload, speech, d, t, e, write_result) ==
    Only({
        IF makedirs = Failure
        THEN [returned |-> Failure, generated |-> <<>>, committed |-> FALSE]
        ELSE IF tr.text = PyNone
        THEN [returned |-> [results EXCEPT
                               !.error = PyStr(<<"Ne", " ", "vdalosia", " ", "otrymaty", " ",
                                                 "transkrypt">>)],
              generated |-> tr.generated, committed |-> FALSE]
        ELSE Only({
            IF fd.filled_data = <<>>
            THEN [returned |-> [results EXCEPT
                                   !.transcript_file = PyStr(<<"transcript.txt">>),
                                   !.error = PyStr(<<"Ne", " ", "vdalosia", " ",
                                                     "proanalizuvaty", " ", "dani">>)],
                  generated |-> tr.generated \o fd.generated, committed |-> FALSE]
            ELSE [returned |->
                    IF write_result.success
                    THEN [results EXCEPT !.transcript_file = PyStr(<<"transcript.txt">>),
                                         !.updated_excel_file = PyStr(<<"file.xlsx">>),
                                         !.written_row = write_result.written_row,
                                         !.success = TRUE]
                    ELSE [results EXCEPT !.transcript_file = PyStr(<<"transcript.txt">>),
                                         !.error = PyStr(<<"Pomylka", " ", "pry", " ",
                                                           "onovlenni", " ", "Excel">>)],
                  generated |-> tr.generated \o fd.generated, committed |-> TRUE]
            : fd \in {fill_excel_data(structure, d, t, e)} })
        : results \in {[success |-> FALSE, error |-> PyNone, transcript_file |-> PyNone,
                        updated_excel_file |-> PyNone, written_row |-> PyNone]},
          tr \in {transcribe_audio(upload, speech)} })

\* The fields a schema is made of: a dropdown over two words, a dropdown
\* over "1" and "0", a text cell, an empty cell under the score header,
\* one more dropdown
FieldTable ==
    << [name |-> <<"Tema">>, type |-> "dropdown", dropdown_options |-> <<<<"Low">>, <<"High">>>>],
       [name |-> <<"Komentar">>, type |-> "text", dropdown_options |-> <<>>],
       [name |-> <<"Pryvitannia">>, type |-> "dropdown", dropdown_options |-> <<<<"1">>, <<"0">>>>],
       [name |-> <<"Otsinka">>, type |-> "empty", dropdown_options |-> <<>>],
       [name |-> <<"Proshchannia">>, type |-> "dropdown", dropdown_options |-> <<<<"0">>, <<"1">>>>] >>

\* The schemas read, each a dict as its items in column order: the fields
\* of FieldTable[1..MaxFields] some columns hold
Schemas ==
    { [ty |-> "dict", items |-> [k \in 1..Cardinality(K) |-> FieldTable[SortedSeq(K)[k]]]]
      : K \in SUBSET (1..MaxFields) }

\* What generate_content gives to the dropdown batch: every field valid
\* (the second padded); another letter case and the second missing; a value
\* outside the options and a number no field has; a field number that is
\* not a number, then a valid segment; no ':' at all; the empty text; the
\* call raises
DropdownOutcomes ==
    { PyStr(<<"1", ":", " ", "High", ",", " ", "2", ":", " ", "1", " ">>),
      PyStr(<<"1", ":", " ", "high">>),
      PyStr(<<"1", ":", "Medium", ",", "7", ":", "1">>),
      PyStr(<<"x", ":", "High", ",", "2", ":", "0">>),
      PyStr(<<"High">>),
      PyStr(<<>>),
      Failure }

\* ... to the text batch: both fields; the first only; a malformed
\* segment, then the second field; an empty value; the call raises
TextOutcomes ==
    { PyStr(<<"1", ":", " ", "dobre", ",", " ", "2", ":", " ", "1">>),
      PyStr(<<"1", ":", " ", "dobre">>),
      PyStr(<<"x", ":", "dobre", ",", "2", ":", " ", "0", " ">>),
      PyStr(<<"1", ":">>),
      Failure }

\* ... to the rubric call: the five checks at 1; four at 1 and a
\* recommendation naming a problem; a check at 2; a check twice; a check
\* with no number; the empty text; the call raises
RubricLine(name, value) == <<name, ":", " ", value, "\n">>
RubricOutcomes ==
    { PyStr(RubricLine("vvichlyvist", "1") \o RubricLine("profesiinist", "1")
            \o RubricLine("shvydkist", "1") \o RubricLine("vyrishennia", "1")
            \o RubricLine("protokol", "1")
            \o <<"zahalna", " ", "otsinka", ":", " ", "dobre">>),
      PyStr(RubricLine("vvichlyvist", "1") \o RubricLine("profesiinist", "1")
            \o RubricLine("shvydkist", "1") \o RubricLine("vyrishennia", "1")
            \o <<"rekomendatsii", ":", " ", "problem">>),
      PyStr(RubricLine("vvichlyvist", "2")),
      PyStr(RubricLine("protokol", "1") \o RubricLine("protokol", "1")),
      PyStr(RubricLine("shvydkist", "dobre")),
      PyStr(<<>>),
      Failure }

\* The methods keep no state between calls (the object holds the API key
\* and the model only), so each is called once on the fresh object.
\* makedirs and upload are the outcomes of os.makedirs and genai.upload_file,
\* speech what generate_content gives to transcribe_audio, write_result what
\* write_analyzed_data_to_excel returns.
TFillExcelData ==
    /\ top = "AudioTranscriber"
    /\ \E d \in DropdownOutcomes, t \in TextOutcomes, e \in RubricOutcomes :
        \E r \in {fill_excel_data(fields_structure, d, t, e)} :
            /\ top' = "fill_excel_data"
            /\ generated' = r.generated
            /\ returned' = r.filled_data
            /\ committed' = FALSE
    /\ UNCHANGED <<fields_structure, trackerVars, excelVars, sheetsVars, readerVars, watcherVars>>

TProcessAndUpdateExcel ==
    /\ top = "AudioTranscriber"
    /\ \E makedirs \in {PyNone, Failure}, upload \in {PyStr(<<"audio_file">>), Failure},
          speech \in {PyStr(<<"rozmova">>), PyStr(<<>>), Failure},
          d \in DropdownOutcomes, t \in TextOutcomes, e \in RubricOutcomes,
          write_result \in {[success |-> TRUE, written_row |-> PyInt(XlsHeaderRow + 1)],
                            [success |-> FALSE, written_row |-> PyNone]} :
        \E r \in {process_and_update_excel(fields_structure, makedirs, upload, speech,
                                            d, t, e, write_result)} :
            /\ top' = "process_and_update_excel"
            /\ generated' = r.generated
            /\ returned' = r.returned
            /\ committed' = r.committed
    /\ UNCHANGED <<fields_structure, trackerVars, excelVars, sheetsVars, readerVars, watcherVars>>

\* No transcriber constructed
IdleTranscriber ==
    /\ fields_structure = PyNone /\ top = "idle" /\ generated = <<>>
    /\ returned = <<>> /\ committed = FALSE

NextTranscriber == TFillExcelData \/ TProcessAndUpdateExcel

-----------------------------------------------------------------------------
(* AudioFileHandler: the local-folder watcher (file_handler.py)             *)

\* The paths events arrive for: two audio files and the text file named
\* like the first; supported_formats as configured
WatchedPaths ==
    { [stem |-> "a", ext |-> ".mp3"], [stem |-> "b", ext |-> ".mp3"],
      [stem |-> "a", ext |-> ".txt"] }
supported_formats == {".mp3", ".txt"}

\* AudioFileHandler.process_audio_file(file_path): processed_files, the
\* transcripts in the folder and the committed rows after the call. size
\* is what os.path.getsize gives (within the limit, over it, or it
\* raises), result what process_and_update_excel does (success true with a
\* row written, success false, or it raises), transcript whether
\* transcribe_audio gave a text and save_transcript wrote it.
AudioFileHandler_process_audio_file(file_path, size, result, transcript) ==
    IF \/ file_path.ext \notin supported_formats
       \/ file_path.ext = ".txt"
       \/ size # "ok"
       \/ file_path \in wprocessed
    THEN [processed_files |-> wprocessed, transcripts |-> wtranscripts, rows |-> wrows]
    ELSE IF file_path.stem \in wtranscripts
    THEN [processed_files |-> wprocessed \cup {file_path},
          transcripts |-> wtranscripts, rows |-> wrows]
    ELSE IF enable_excel
    THEN [processed_files |-> IF result = "raised" THEN wprocessed
                              ELSE wprocessed \cup {file_path},
          transcripts |-> wtranscripts,
          rows |-> IF result = "success"
                   THEN [wrows EXCEPT ![file_path] = @ + 1] ELSE wrows]
    ELSE [processed_files |-> wprocessed \cup {file_path},
          transcripts |-> IF transcript = "saved"
                          THEN wtranscripts \cup {file_path.stem} ELSE wtranscripts,
          rows |-> wrows]

\* on_created(event) for a file (not a directory). A commit beyond
\* MaxCommits for one path is left out.
on_created ==
    /\ \E src_path \in WatchedPaths, size \in {"ok", "big", "raised"},
          result \in {"success", "failed", "raised"}, transcript \in {"saved", "none"} :
        \E r \in {AudioFileHandler_process_audio_file(src_path, size, result, transcript)} :
            /\ r.rows[src_path] <= MaxCommits
            /\ wprocessed' = r.processed_files /\ wtranscripts' = r.transcripts
            /\ wrows' = r.rows
    /\ wop' = "on_created"
    /\ UNCHANGED <<enable_excel, trackerVars, excelVars, sheetsVars, readerVars,
                   transcriberVars>>

\* on_moved(event) for a file
on_moved ==
    /\ \E dest_path \in WatchedPaths, size \in {"ok", "big", "raised"},
          result \in {"success", "failed", "raised"}, transcript \in {"saved", "none"} :
        \E r \in {AudioFileHandler_process_audio_file(dest_path, size, result, transcript)} :
            /\ r.rows[dest_path] <= MaxCommits
            /\ wprocessed' = r.processed_files /\ wtranscripts' = r.transcripts
            /\ wrows' = r.rows
    /\ wop' = "on_moved"
    /\ UNCHANGED <<enable_excel, trackerVars, excelVars, sheetsVars, readerVars,
                   transcriberVars>>

\* The process stops and a new AudioFileHandler is constructed on the same
\* folder and workbook (__init__, lines 13-22): processed_files is empty.
WatcherRestart ==
    /\ wop # "AudioFileHandler"
    /\ wprocessed' = {}
    /\ wop' = "AudioFileHandler"
    /\ UNCHANGED <<enable_excel, wtranscripts, wrows, trackerVars, excelVars, sheetsVars,
                   readerVars, transcriberVars>>

\* No watcher constructed
IdleWatcher ==
    /\ enable_excel = FALSE /\ wprocessed = {} /\ wtranscripts = {}
    /\ wrows = EmptyDict /\ wop = "idle"

NextWatcher == on_created \/ on_moved \/ WatcherRestart

-----------------------------------------------------------------------------
(* Specifications: one per subsystem, the others idle *)

InitTracker == IdleTracker /\ IdleExcel /\ IdleSheets /\ IdleReader /\ IdleTranscriber /\ IdleWatcher

SpecTracker == InitTracker /\ [][NextTracker]_vars

\* A tracker constructed with no ledger file on disk
InitLedger == InitTracker

SpecLedger == InitLedger /\ [][NextLedger]_vars

\* A writer opened on one of the workbooks
InitExcel ==
    /\ ws \in Workbooks /\ xop = "ExcelDataWriter" /\ row = 0 /\ ok = FALSE
    /\ xdata = PyNone /\ xfile = ws /\ xresult = PyNone
    /\ IdleTracker /\ IdleSheets /\ IdleReader /\ IdleTranscriber /\ IdleWatcher

SpecExcel == InitExcel /\ [][NextExcel]_vars

\* A workbook file on disk, no writer open
InitWorkbook ==
    /\ xfile \in StoredWorkbooks /\ ws = NoFile /\ xop = "stored" /\ row = 0
    /\ ok = FALSE /\ xdata = PyNone /\ xresult = PyNone
    /\ IdleTracker /\ IdleSheets /\ IdleReader /\ IdleTranscriber /\ IdleWatcher

SpecWorkbook == InitWorkbook /\ [][NextWorkbook]_vars

\* A worksheet of the spreadsheet
InitSheets ==
    /\ sheet \in Worksheets /\ sop = "idle" /\ srow = 0 /\ sok = FALSE /\ sauto = FALSE
    /\ swritten = 0
    /\ IdleTracker /\ IdleExcel /\ IdleReader /\ IdleTranscriber /\ IdleWatcher

SpecSheets == InitSheets /\ [][NextSheets]_vars

\* A reader opened on a workbook with one of the header rows, and the cloud
\* handler on a worksheet with the same header row
InitReader ==
    /\ header_cells \in HeaderRows /\ rop = "ExcelDataReader"
    /\ header_values = <<>> /\ keys_dict = <<>>
    /\ srop = "GoogleSheetsHandler" /\ sfields = <<>>
    /\ IdleTracker /\ IdleExcel /\ IdleSheets /\ IdleTranscriber /\ IdleWatcher

SpecReader == InitReader /\ [][NextReader]_vars

\* A transcriber constructed, and the schema its reader will give
InitTranscriber ==
    /\ fields_structure \in Schemas \cup {Failure} /\ top = "AudioTranscriber"
    /\ generated = <<>> /\ returned = <<>> /\ committed = FALSE
    /\ IdleTracker /\ IdleExcel /\ IdleSheets /\ IdleReader /\ IdleWatcher

SpecTranscriber == InitTranscriber /\ [][NextTranscriber]_vars

\* A watcher constructed on a folder, with or without the workbook; the
\* folder may hold the transcript of the second audio file
InitWatcher ==
    /\ enable_excel \in BOOLEAN /\ wprocessed = {}
    /\ wtranscripts \in {{}, {"b"}}
    /\ wrows = [file_path \in WatchedPaths |-> 0] /\ wop = "AudioFileHandler"
    /\ IdleTracker /\ IdleExcel /\ IdleSheets /\ IdleReader /\ IdleTranscriber

SpecWatcher == InitWatcher /\ [][NextWatcher]_vars

-----------------------------------------------------------------------------
(* Claims about the ledger *)

\* C1: once the ledger holds an entry for file id X, no later operation
\* calls the pipeline for X while the entry stays in the ledger: every id
\* the last operation ran the pipeline for had no entry when it began.
C1_NoPipelineWhileInLedger == \A x \in ran : x \notin had_entry

\* C1 witness: after a restart a file with a ledger entry is listed by a
\* poll, is not in the session set, and the pipeline is not called for it.
C1_Witness ==
    /\ op = "monitor_folder"
    /\ \E x \in listed \ oversized :
          x \in had_entry /\ x \notin processed_files /\ x \notin ran

\* C2: every call that starts the pipeline for X ends with a ledger entry
\* for X: success with the written row when the pipeline reports success,
\* failure with the error in every other outcome, a raised exception included.
C2_EveryAttemptRecorded ==
    \A x \in ran :
        /\ x \in DOMAIN tracker
        /\ IF outcome[x].kind = "ok"
           THEN /\ tracker[x].success = PyBool(TRUE)
                /\ tracker[x].row_number = PyInt(outcome[x].written_row)
           ELSE /\ tracker[x].success = PyBool(FALSE)
                /\ tracker[x].error # PyNone

\* C2 witness of the failing case: the pipeline raised for a file.
C2_RaiseReached == \E x \in ran : outcome[x].kind = "raise"

C4_RemoveMakesRetry ==
    op = "monitor_folder" => \A x \in listed \ oversized : x \notin pendingRetry

-----------------------------------------------------------------------------
(* Claims about the local-workbook writer *)

\* C5: two consecutive calls of find_next_empty_row with no write in between
\* return the same row, and after a write to the row it returned that
\* reported success, the next call returns a strictly greater row.
C5_NextEmptyRowAdvances ==
    [][xop' = "find_next_empty_row" =>
         /\ xop = "find_next_empty_row" => row' = row
         /\ xop = "add_new_row_with_data" /\ ok => row' > row]_vars

\* C7: a cell of the target row that holds the skip marker or a string
\* starting with "=" before write_data_to_row holds the same content after
\* it, whichever step (fields, file name, score) addresses its column.
C7_SkipCellsKept ==
    [][xop' = "write_data_to_row" =>
         \A c \in 1..MaxColumn(ws) :
            LET v == CellAt(ws, row', c)
            IN  (Truthy(v) /\ (ContainsAny(Lower(v.s), SkipMarkers) \/ v.s[1] = "="))
                    => CellAt(ws', row', c) = v]_vars

-----------------------------------------------------------------------------
(* Claims about the cloud writer *)

C8_CloudSkipCellsKept ==
    [][sop' = "write_data_to_row" /\ ~sauto' =>
         \A c \in DOMAIN sheet[srow'] :
            LET v == sheet[srow'][c]
            IN  (Truthy(v) /\ (ContainsAny(Lower(v.s), SkipMarkers) \/ v.s[1] = "="))
                    => sheet'[srow'][c] = v]_vars

-----------------------------------------------------------------------------
(* Claims about the schema reader *)

\* C9: read_data returns exactly one field per header column read, under
\* pairwise distinct names: the first occurrence of a name X is named X, its
\* k-th occurrence X_k, also when the row holds a literal name X_2.
C9_OneFieldPerColumn ==
    rop = "read_data" =>
        /\ Len(keys_dict) = Len(header_values)
        /\ \A i \in DOMAIN keys_dict :
              LET k == Cardinality({j \in 1..i : header_values[j] = header_values[i]})
              IN  /\ keys_dict[i].value = i
                  /\ keys_dict[i].key = IF k = 1 THEN header_values[i]
                                        ELSE header_values[i] \o <<"_", DigitStr[k + 1]>>
        /\ \A i, j \in DOMAIN keys_dict : keys_dict[i].key = keys_dict[j].key => i = j

\* C10: read_data enumerates the columns from column 1 and stops at the
\* first column whose header cell is blank or absent: the columns read are
\* exactly the columns before that one.
C10_StopsAtFirstBlank ==
    rop = "read_data" =>
        LET blanks == {c \in DOMAIN header_cells :
                         header_cells[c] = PyNone \/ Strip(header_cells[c].s) = <<>>}
        IN  DOMAIN header_values = {c \in DOMAIN header_cells : \A b \in blanks : c < b}

-----------------------------------------------------------------------------
(* Claims about extraction, evaluation and the local pipeline *)

\* C11: for every choice field of the schema and every outcome of the
\* generation call of the choice batch (valid answer, answer outside the
\* options, field missing, unparsable answer, call failure), extraction
\* returns exactly one value for the field, and it is one of the field's
\* options: never empty, never outside them.
C11_ChoiceValueInDomain ==
    (top = "fill_excel_data" /\ fields_structure # Failure) =>
        \A j \in DOMAIN fields_structure.items :
            fields_structure.items[j].type = "dropdown" =>
                /\ Cardinality({k \in DOMAIN returned :
                        returned[k].key = fields_structure.items[j].name}) = 1
                /\ \A k \in DOMAIN returned :
                      returned[k].key = fields_structure.items[j].name =>
                        /\ returned[k].value.analyzed_value.ty = "str"
                        /\ returned[k].value.analyzed_value.s # <<>>
                        /\ \E o \in DOMAIN fields_structure.items[j].dropdown_options :
                              returned[k].value.analyzed_value.s =
                                  fields_structure.items[j].dropdown_options[o]

\* C11 witness: the choice batch answered the first choice field with a
\* value that is none of its options, and extraction returned the field's
\* first option.
C11_Witness ==
    /\ top = "fill_excel_data" /\ fields_structure # Failure
    /\ generated[1].prompt = "dropdown" /\ generated[1].outcome # Failure
    /\ \E g \in DOMAIN ParsedSegments(Strip(generated[1].outcome.s)) :
          /\ ParsedSegments(Strip(generated[1].outcome.s))[g].num.n = 1
          /\ ParsedSegments(Strip(generated[1].outcome.s))[g].value = <<"Medium">>
    /\ \E k \in DOMAIN returned :
          /\ returned[k].value.field_type = "dropdown"
          /\ returned[k].value.analyzed_value = PyStr(<<"Low">>)

\* C12: field extraction issues at most 2 generation calls whatever the
\* numbers of choice and text fields: exactly one for the choice batch when
\* the schema has a choice field and none otherwise, exactly one for the
\* text batch when it has another field and none otherwise.
C12_AtMostTwoExtractionCalls ==
    (top = "fill_excel_data" /\ fields_structure # Failure) =>
        /\ Cardinality({g \in DOMAIN generated : generated[g].prompt = "dropdown"})
             = IF \E j \in DOMAIN fields_structure.items :
                      fields_structure.items[j].type = "dropdown"
               THEN 1 ELSE 0
        /\ Cardinality({g \in DOMAIN generated : generated[g].prompt = "text"})
             = IF \E j \in DOMAIN fields_structure.items :
                      fields_structure.items[j].type # "dropdown"
               THEN 1 ELSE 0
        /\ Cardinality({g \in DOMAIN generated :
                           generated[g].prompt \in {"dropdown", "text"}}) <= 2

\* C12 witness: a schema of two choice fields and two other fields was
\* extracted with two extraction calls.
C12_Witness ==
    /\ top = "fill_excel_data" /\ fields_structure # Failure
    /\ Cardinality({j \in DOMAIN fields_structure.items :
                        fields_structure.items[j].type = "dropdown"}) >= 2
    /\ Cardinality({j \in DOMAIN fields_structure.items :
                        fields_structure.items[j].type # "dropdown"}) >= 2
    /\ Cardinality({g \in DOMAIN generated :
                        generated[g].prompt \in {"dropdown", "text"}}) = 2

\* C13: the aggregate score equals the number of extracted fields whose
\* value is exactly the string "1"; a field whose value is "0", any other
\* string, or not a string (the evaluation) adds nothing.
C13_ScoreCountsOnes ==
    (top = "fill_excel_data" /\ fields_structure # Failure) =>
        \E k \in DOMAIN returned :
            /\ returned[k].key = <<"_total_score">>
            /\ returned[k].value.analyzed_value =
                  PyInt(Cardinality({m \in DOMAIN returned :
                            /\ returned[m].key # <<"_total_score">>
                            /\ returned[m].value.analyzed_value = PyStr(<<"1">>)}))

\* C13 witness: extraction returned a field holding "1" (sent padded by
\* the model), a field holding "0" and a field holding another string, and
\* the score is 1.
C13_Witness ==
    /\ top = "fill_excel_data" /\ fields_structure # Failure
    /\ \E g \in DOMAIN generated :
          generated[g].outcome
            = PyStr(<<"1", ":", " ", "High", ",", " ", "2", ":", " ", "1", " ">>)
    /\ \E k, m, n \in DOMAIN returned :
          /\ returned[k].value.analyzed_value = PyStr(<<"1">>)
          /\ returned[m].value.analyzed_value = PyStr(<<"0">>)
          /\ returned[n].value.analyzed_value = PyStr(<<"High">>)
    /\ \E k \in DOMAIN returned :
          returned[k].key = <<"_total_score">> /\ returned[k].value.analyzed_value = PyInt(1)

\* C14: the fallback is applied field by field. When a batch got an
\* answer, every field of the batch that some parsed segment numbers keeps
\* the value of its last such segment (a choice field when that value is
\* one of its options), and only the fields no parsed segment numbers get
\* the fallback: the first option for a choice field, "Ne vkazano" (not
\* specified) for a text field. A malformed segment changes nothing for the
\* other fields.
C14_FallbackFieldByField ==
    (top = "fill_excel_data" /\ fields_structure # Failure) =>
        \A g \in DOMAIN generated :
            (generated[g].prompt \in {"dropdown", "text"} /\ generated[g].outcome # Failure) =>
                LET choice == generated[g].prompt = "dropdown"
                    batch == SelectSeq(fields_structure.items,
                                LAMBDA f : (f.type = "dropdown") = choice)
                    segs == ParsedSegments(Strip(generated[g].outcome.s))
                IN  \A j \in DOMAIN batch : \E k \in DOMAIN returned :
                        /\ returned[k].key = batch[j].name
                        /\ LET mine == {i \in DOMAIN segs : segs[i].num.n = j}
                               last == segs[CHOOSE a \in mine : \A b \in mine : b <= a].value
                               got == returned[k].value.analyzed_value
                           IN  IF mine = {}
                               THEN got = IF choice THEN PyStr(batch[j].dropdown_options[1])
                                          ELSE NotSpecified
                               ELSE \/ got = PyStr(last)
                                    \/ /\ choice
                                       /\ \A o \in DOMAIN batch[j].dropdown_options :
                                              batch[j].dropdown_options[o] # last
                                       /\ got = PyStr(batch[j].dropdown_options[1])

\* C14 witness: the choice batch answered with a segment whose field number
\* is not a number and a well-formed segment for the second field; the
\* first field got its first option and the second kept the parsed "0",
\* which is not its first option.
C14_Witness ==
    /\ top = "fill_excel_data" /\ fields_structure # Failure
    /\ generated[1] = [prompt |-> "dropdown",
                       outcome |-> PyStr(<<"x", ":", "High", ",", "2", ":", "0">>)]
    /\ \E k, m \in DOMAIN returned :
          /\ returned[k].key = <<"Tema">>
          /\ returned[k].value.analyzed_value = PyStr(<<"Low">>)
          /\ returned[m].key = <<"Pryvitannia">>
          /\ returned[m].value.analyzed_value = PyStr(<<"0">>)

\* C15: when the rubric generation call fails (it raises, or returns no
\* text), the evaluation has no per-check scores, total 0 and
\* is_performance_good true, and the pipeline goes on to the commit step.
C15_EvaluationFailureSatisfactory ==
    \A g \in DOMAIN generated :
        (/\ generated[g].prompt = "evaluation"
         /\ generated[g].outcome \in {Failure, PyStr(<<>>)}) =>
            /\ top = "process_and_update_excel" => committed
            /\ top = "fill_excel_data" =>
                  \E k \in DOMAIN returned :
                      /\ returned[k].key = <<"_manager_evaluation">>
                      /\ DOMAIN returned[k].value.analyzed_value.scores = {}
                      /\ returned[k].value.analyzed_value.total_score = 0
                      /\ returned[k].value.analyzed_value.is_performance_good

\* C15 witness: the rubric call returned the empty text and the evaluation
\* is marked not satisfactory.
C15_EmptyAnswerReached ==
    /\ top = "fill_excel_data" /\ fields_structure # Failure
    /\ \E g \in DOMAIN generated :
          generated[g] = [prompt |-> "evaluation", outcome |-> PyStr(<<>>)]
    /\ \E k \in DOMAIN returned :
          /\ returned[k].key = <<"_manager_evaluation">>
          /\ ~returned[k].value.analyzed_value.is_performance_good

\* C16: for every response text of the rubric call, each recorded per-check
\* score is 0 or 1 and the total equals the sum of the recorded scores, a
\* missing check counting 0, hence 0 <= total <= 5; also when a check's
\* line occurs twice or carries a number other than 0 or 1.
C16_ScoresBinaryAndSummed ==
    (top = "fill_excel_data" /\ fields_structure # Failure) =>
        \A k \in DOMAIN returned :
            (/\ returned[k].key = <<"_manager_evaluation">>
             /\ \E g \in DOMAIN generated :
                    generated[g].prompt = "evaluation" /\ generated[g].outcome # Failure) =>
                LET ev == returned[k].value.analyzed_value
                    names == <<<<"vvichlyvist">>, <<"profesiinist">>, <<"shvydkist">>,
                               <<"vyrishennia">>, <<"protokol">>>>
                IN  /\ \A n \in DOMAIN ev.scores : ev.scores[n] \in {0, 1}
                    /\ ev.total_score
                         = Sum([i \in DOMAIN names |->
                                  IF names[i] \in DOMAIN ev.scores THEN ev.scores[names[i]]
                                  ELSE 0])
                    /\ 0 <= ev.total_score /\ ev.total_score <= 5

\* C16 witness: the rubric answer gave one check twice, both times 1; one
\* score of 1 is recorded and the total is 2.
C16_TwiceReached ==
    /\ top = "fill_excel_data" /\ fields_structure # Failure
    /\ \E k \in DOMAIN returned :
          /\ returned[k].key = <<"_manager_evaluation">>
          /\ returned[k].value.analyzed_value.scores = [n \in {<<"protokol">>} |-> 1]
          /\ returned[k].value.analyzed_value.total_score = 2

\* C18: when transcription returns nothing for an item (upload_file or the
\* generation call raised, or the text is empty), process_and_update_excel
\* makes no generation call for extraction or evaluation, does not call the
\* spreadsheet writer, and returns success false with an error message.
C18_NoTranscriptNoCommit ==
    (/\ top = "process_and_update_excel" /\ returned # Failure
     /\ \/ generated = <<>>
        \/ /\ generated[1].prompt = "transcribe"
           /\ generated[1].outcome \in {Failure, PyStr(<<>>)}) =>
        /\ \A g \in DOMAIN generated :
              generated[g].prompt \notin {"dropdown", "text", "evaluation"}
        /\ ~committed
        /\ returned.success = FALSE
        /\ returned.error # PyNone /\ returned.error.s # <<>>

\* C18 witness: the transcription call returned the empty text and the
\* pipeline returned a failure with an error message after that one call.
C18_Witness ==
    /\ top = "process_and_update_excel" /\ returned # Failure
    /\ generated = <<[prompt |-> "transcribe", outcome |-> PyStr(<<>>)]>>
    /\ ~returned.success /\ returned.error # PyNone /\ ~committed

\* C19: for a choice field, when the value the model returned is not an
\* exact member of the options but equals an option up to letter case,
\* extraction returns that option; the first option is returned only when
\* no option matches case-insensitively either.
C19_CaseInsensitiveMatch ==
    (top = "fill_excel_data" /\ fields_structure # Failure) =>
        \A g \in DOMAIN generated :
            (generated[g].prompt = "dropdown" /\ generated[g].outcome # Failure) =>
                LET batch == SelectSeq(fields_structure.items, LAMBDA f : f.type = "dropdown")
                    segs == ParsedSegments(Strip(generated[g].outcome.s))
                IN  \A j \in DOMAIN batch : \A k \in DOMAIN returned :
                        LET mine == {i \in DOMAIN segs : segs[i].num.n = j}
                            last == segs[CHOOSE a \in mine : \A b \in mine : b <= a].value
                            options == batch[j].dropdown_options
                        IN  (/\ returned[k].key = batch[j].name
                             /\ mine # {}
                             /\ \A o \in DOMAIN options : options[o] # last
                             /\ \E o \in DOMAIN options : Lower(options[o]) = Lower(last)) =>
                                \E o \in DOMAIN options :
                                    /\ Lower(options[o]) = Lower(last)
                                    /\ returned[k].value.analyzed_value = PyStr(options[o])

\* C19 witness: the model answered "high" for a field whose options are
\* "Low" and "High", and extraction returned "Low".
C19_OtherCaseReached ==
    /\ top = "fill_excel_data" /\ fields_structure # Failure
    /\ generated[1] = [prompt |-> "dropdown", outcome |-> PyStr(<<"1", ":", " ", "high">>)]
    /\ \E k \in DOMAIN returned :
          /\ returned[k].key = <<"Tema">>
          /\ returned[k].value.analyzed_value = PyStr(<<"Low">>)

\* C20: when the generation call of a batch fails outright, every field of
\* that batch gets the value it would get if it were missing from a
\* response: its first option for a choice field, "Ne vkazano" (not
\* specified) for a text field.
C20_CallFailureGivesFallback ==
    (top = "fill_excel_data" /\ fields_structure # Failure) =>
        \A g \in DOMAIN generated :
            (generated[g].prompt \in {"dropdown", "text"} /\ generated[g].outcome = Failure) =>
                \A j \in DOMAIN fields_structure.items :
                    LET f == fields_structure.items[j]
                    IN  ((f.type = "dropdown") = (generated[g].prompt = "dropdown")) =>
                            \E k \in DOMAIN returned :
                                /\ returned[k].key = f.name
                                /\ returned[k].value.analyzed_value
                                     = IF f.type = "dropdown" THEN PyStr(f.dropdown_options[1])
                                       ELSE NotSpecified

\* C20 witness: the call of the text batch raised and a text field got
\* "Pomylka analizu" (analysis error).
C20_TextFailureReached ==
    /\ top = "fill_excel_data" /\ fields_structure # Failure
    /\ \E g \in DOMAIN generated : generated[g] = [prompt |-> "text", outcome |-> Failure]
    /\ \E k \in DOMAIN returned : returned[k].value.analyzed_value = AnalysisError

-----------------------------------------------------------------------------
(* Claims about the commit result *)

\* C17: commit never reports success when zero cells of the target row
\* were written: it reports success only if at least one field value, the
\* file name or the transcript was written. The claim is about both
\* backends; the local writer returns written_fields > 0 (excel_writer.py
\* line 132), and the statement here is the one for the cloud writer.
C17_SuccessNeedsWrittenCell ==
    (sop = "write_data_to_row" /\ sok) => swritten > 0

\* C17 witness: the cloud writer reported success for a row it wrote no
\* field value to.
C17_NothingWrittenReached ==
    sop = "write_data_to_row" /\ sok /\ swritten = 0

-----------------------------------------------------------------------------
(* Claims about the score handed to the commit *)

\* C21: the total score fill_excel_data hands to the row commit (the
\* _total_score entry) equals the sum of the evaluation's per-check scores
\* plus the sum of the other extracted fields whose value is "0" or "1".
C21_TotalFoldsInRubric ==
    (top = "fill_excel_data" /\ fields_structure # Failure) =>
        \E k, v \in DOMAIN returned :
            /\ returned[k].key = <<"_total_score">>
            /\ returned[v].key = <<"_manager_evaluation">>
            /\ LET ev == returned[v].value.analyzed_value
                   names == <<<<"vvichlyvist">>, <<"profesiinist">>, <<"shvydkist">>,
                              <<"vyrishennia">>, <<"protokol">>>>
                   fields == SelectSeq(returned, LAMBDA it :
                                it.value.analyzed_value \in {PyStr(<<"0">>), PyStr(<<"1">>)})
               IN  returned[k].value.analyzed_value
                     = PyInt(Sum([i \in DOMAIN names |->
                                    IF names[i] \in DOMAIN ev.scores
                                    THEN ev.scores[names[i]] ELSE 0])
                             + Sum([i \in DOMAIN fields |->
                                    IF fields[i].value.analyzed_value = PyStr(<<"1">>)
                                    THEN 1 ELSE 0]))

\* C21 witness: the rubric answer scored the five checks 1 each, one
\* extracted field holds "1", and the total handed on is 1.
C21_RubricLeftOut ==
    /\ top = "fill_excel_data" /\ fields_structure # Failure
    /\ \E v \in DOMAIN returned :
          /\ returned[v].key = <<"_manager_evaluation">>
          /\ returned[v].value.analyzed_value.total_score = 5
          /\ DOMAIN returned[v].value.analyzed_value.scores = CheckNames
    /\ \E m \in DOMAIN returned : returned[m].value.analyzed_value = PyStr(<<"1">>)
    /\ \E k \in DOMAIN returned :
          returned[k].key = <<"_total_score">> /\ returned[k].value.analyzed_value = PyInt(1)

-----------------------------------------------------------------------------
(* Claims about the cells a local commit writes *)

\* C22: when the header row has a column whose name holds a score keyword
\* (a column named "Otsinka" included) and the target-row cell of that
\* column holds neither the skip marker nor a formula, then after a commit
\* that was handed a total score the cell holds that score.
C22_ScoreCellWritten ==
    [][(xop' \in {"write_data_to_row", "add_new_row_with_data"} /\ ok'
            /\ xdata'.total_score # PyNone) =>
         \A c \in 1..MaxColumn(ws) :
            LET h == CellAt(ws, XlsHeaderRow, c)
                v == CellAt(ws, row', c)
            IN  (/\ Truthy(h) /\ ContainsAny(Lower(Strip(h.s)), ScoreKeywords)
                 /\ ~(Truthy(v) /\ (ContainsAny(Lower(v.s), SkipMarkers) \/ v.s[1] = "=")))
                    => CellAt(ws', row', c)
                         \in {xdata'.total_score,
                              PyStr(<<DigitStr[xdata'.total_score.n + 1]>>)}]_vars

\* C22 witness: a commit with a total score succeeded on a sheet whose
\* second header is "Otsinka", and the cell under it is still empty.
C22_OtsinkaLeftEmpty ==
    /\ xop = "write_data_to_row" /\ ok
    /\ xdata.total_score = PyInt(3)
    /\ CellAt(ws, XlsHeaderRow, 2) = PyStr(<<"Otsinka">>)
    /\ CellAt(ws, row, 2) = PyNone

\* C23: for every field f of the schema the reader gives for the header
\* row (duplicate headers named X, X_2, ...) that has a non-empty value in
\* the data and is not skipped, after the commit the target-row cell of the
\* column f was read from holds f's value, and no other cell the commit
\* changed holds it unless it is the value of the field read from there.
C23_ValueInItsOwnColumn ==
    [][(xop' \in {"write_data_to_row", "add_new_row_with_data"} /\ ok') =>
         LET hv == ScanHeader(ws.rows[XlsHeaderRow])
             schema == KeysDict(hv, Len(hv))
             given(f) == /\ f \in DOMAIN xdata'.fields
                         /\ xdata'.fields[f] \notin {PyNone, PyStr(<<>>)}
         IN  \A i \in DOMAIN schema :
                LET f == schema[i].key
                    c == schema[i].value
                IN  (given(f) /\ ~should_skip_field(ws, f, row', c)) =>
                        /\ CellAt(ws', row', c) = xdata'.fields[f]
                        /\ \A d \in 1..MaxColumn(ws) :
                              (/\ d # c
                               /\ CellAt(ws', row', d) # CellAt(ws, row', d)
                               /\ CellAt(ws', row', d) = xdata'.fields[f])
                                  => \E j \in DOMAIN schema :
                                        /\ schema[j].value = d /\ given(schema[j].key)
                                        /\ xdata'.fields[schema[j].key] = xdata'.fields[f]]_vars

\* C23 witness: the first two headers are alike, the data holds a value
\* for X and another for X_2, and after the commit the first column is
\* empty and the second holds the value of X.
C23_WrittenUnderDuplicate ==
    /\ xop = "write_data_to_row" /\ ok
    /\ CellAt(ws, XlsHeaderRow, 1) = PyStr(Client)
    /\ CellAt(ws, XlsHeaderRow, 2) = PyStr(Client)
    /\ DOMAIN xdata.fields = {Client, Client \o <<"_", "2">>}
    /\ CellAt(ws, row, 1) = PyNone
    /\ CellAt(ws, row, 2) = xdata.fields[Client]

-----------------------------------------------------------------------------
(* Claims about the workbook file *)

\* C28: a commit changes cell contents only in its target row: the header
\* row and every other row of the worksheet (earlier committed rows, the
\* template row when it is not the target) hold after write_data_to_row
\* the values they held when the workbook was loaded.
C28_OnlyTargetRowChanges ==
    [][(xop' = "write_analyzed_data_to_excel" /\ ws' # NoFile) =>
         /\ DOMAIN ws'.rows = DOMAIN xfile.rows
         /\ \A r \in DOMAIN xfile.rows : r # row' => ws'.rows[r] = xfile.rows[r]]_vars

\* C28 witness: a commit wrote a field value, the file's name and the
\* score into the row below the template row, which still holds its
\* markers and its formula.
C28_Witness ==
    /\ xop = "write_analyzed_data_to_excel" /\ ok
    /\ row = XlsHeaderRow + 2
    /\ ws.rows[XlsHeaderRow + 1] = <<Marker, Formula, Marker>>
    /\ ws.rows[row] = <<PyStr(<<"val">>), PyStr(<<"a">>), PyStr(<<"3">>)>>

\* C29: whenever write_analyzed_data_to_excel returns success false
\* because writing the row failed (nothing written, or a cell write raised
\* part-way), the workbook is not saved: the file on disk is what it was
\* before the call.
C29_FailedWriteNotSaved ==
    [][(xop' = "write_analyzed_data_to_excel" /\ ~xresult'.success
            /\ xresult'.error = WriteError) => xfile' = xfile]_vars

\* C29 witness: writing the row failed after the worksheet in memory had
\* been changed, and the file on disk does not hold the change.
C29_Witness ==
    /\ xop = "write_analyzed_data_to_excel"
    /\ ~xresult.success /\ xresult.error = WriteError
    /\ ws.rows[row] # xfile.rows[row]

-----------------------------------------------------------------------------
(* Claims about the local-folder watcher *)

\* C24: with the spreadsheet integration on, an audio file path for which
\* a row was committed is never committed a second time by later created or
\* moved events for the same path, events after a restart included.
C24_CommittedOnce ==
    enable_excel => \A file_path \in DOMAIN wrows : wrows[file_path] <= 1

\* C24 witness: after a restart an event for a path committed before led
\* to a second row for it, and the path is in the new session's set.
C24_CommittedAgainAfterRestart ==
    /\ enable_excel /\ wop \in {"on_created", "on_moved"}
    /\ \E file_path \in DOMAIN wrows :
          wrows[file_path] = 2 /\ wprocessed = {file_path}

-----------------------------------------------------------------------------
(* Claims about an empty schema *)

\* C25: when the schema read from the header row has no field,
\* process_and_update_excel fails before any generation call for
\* extraction or evaluation is issued and before the commit is attempted,
\* and returns success false.
C25_EmptySchemaStopsEarly ==
    (/\ top = "process_and_update_excel"
     /\ fields_structure # Failure /\ fields_structure.items = <<>>
     /\ returned # Failure) =>
        /\ \A g \in DOMAIN generated : generated[g].prompt = "transcribe"
        /\ ~committed
        /\ ~returned.success

\* C25 witness: the schema has no field, the transcript was obtained, the
\* only extraction or evaluation call made is the rubric call, and the
\* writer was called.
C25_EvaluatedAndCommitted ==
    /\ top = "process_and_update_excel"
    /\ fields_structure # Failure /\ fields_structure.items = <<>>
    /\ returned # Failure
    /\ Len(generated) = 2
    /\ generated[1].prompt = "transcribe" /\ generated[2].prompt = "evaluation"
    /\ committed

-----------------------------------------------------------------------------
(* Claims about the two schema readers *)

\* C26: for every header row GoogleSheetsHandler.read_data returns the
\* same ordered sequence of (field name, column index) pairs as
\* ExcelDataReader.read_data: enumeration stops at the first blank header
\* and a repeated name gets the suffixes _2, _3, ...
C26_ReadersAgree ==
    (rop = "read_data" /\ srop = "read_data") => sfields = keys_dict

\* C26 witness: on the header row X, X, None read by both, the local
\* reader names the second column X_2 and the cloud reader has one field X
\* bound to column 2.
C26_DuplicateOverwritten ==
    /\ rop = "read_data" /\ srop = "read_data"
    /\ header_cells = <<PyStr(<<"X">>), PyStr(<<"X">>), PyNone>>
    /\ keys_dict = <<[key |-> <<"X">>, value |-> 1], [key |-> <<"X", "_", "2">>, value |-> 2]>>
    /\ sfields = <<[key |-> <<"X">>, value |-> 2]>>

-----------------------------------------------------------------------------
(* Claims about the ledger's statistics *)

\* C27: after any sequence of mark_as_processed, remove_file and
\* clear_history on a ledger that started empty, get_stats gives
\* total = successful + failed, and total is the number of distinct
\* identities in the ledger: marking an identity adds one only if it was
\* not there, removing one that was there takes one off, clearing gives 0.
C27_StatsConsistent ==
    LET stats == get_stats(tracker)
    IN  /\ stats.total = stats.successful + stats.failed
        /\ op = "mark_as_processed" => stats.total = Cardinality(had_entry \cup listed)
        /\ op = "remove_file" => stats.total = Cardinality(had_entry \ listed)
        /\ op = "clear_history" => stats.total = 0

\* C27 witness: an identity that had an entry was marked again, and the
\* ledger holds two identities, one successful and one failed.
C27_Witness ==
    /\ op = "mark_as_processed" /\ listed \subseteq had_entry
    /\ get_stats(tracker) = [total |-> 2, successful |-> 1, failed |-> 1]


-----------------------------------------------------------------------------
(* Claims about the cloud row allocation *)

\* C30: a write_data_to_row that allocated its row itself (target_row
\* None) never takes the header row 2 or the template row 3: for every
\* worksheet content the row it writes is row 4 or below it.
C30_AutoRowIsDataRow ==
    (sop = "write_data_to_row" /\ sauto) => srow >= SheetsStartRow

\* C30 witness: on a worksheet whose template row and data rows show no
\* value, the allocated row was the template row, and the value of the
\* call now stands in the template row.
C30_WrittenIntoTemplateRow ==
    /\ sop = "write_data_to_row" /\ sauto /\ sok
    /\ srow = SheetsTemplateRow
    /\ sheet[SheetsTemplateRow][1] = PyStr(<<"val">>)
    /\ sheet[SheetsStartRow] = BlankSheetRow

====
